---- MODULE Spec2Model ----
(***************************************************************************)
(* Adaptyst server side: the ingest client (StdClient::process and         *)
(* StdClient::notify) together with the line-framed transports            *)
(* (TCPSocket / FileDescriptor read and write).                            *)
(*                                                                         *)
(* Byte strings are tuples of one-character strings, so that the regular   *)
(* expressions, the framing and the path handling of the code can be       *)
(* computed character by character.                                        *)
(***************************************************************************)
EXTENDS Integers, Sequences, FiniteSets, TLC

(***************************************************************************)
(* Bounds of the model.                                                    *)
(***************************************************************************)
\* largest subclient count N carried by a start frame
MaxSubclients == 2
\* width, in bits, standing for the 64 bits of unsigned long long
TsBits == 2
\* largest thread id reported by a probe
MaxTid == 2
\* upload lines handled before only <STOP> is read
MaxLines == 2
\* longest byte stream fed to a line reader
MaxStream == 6
\* largest buf_size of a connection
MaxBuf == 6
\* longest message handed to write
MaxMsg == 2
\* width, in bits, standing for the 64 bits of size_t
SizeBits == 4
\* width, in bits, standing for the 16 bits of unsigned short port
PortBits == 2
\* most binds tried by one TCPAcceptor constructor
MaxAttempts == 3
\* most lines of one configuration file
MaxConfigLines == 2
\* most comma-separated fields of one -e value
MaxFields == 5
\* largest std::thread::hardware_concurrency()
MaxHw == 6
\* width, in bits, standing for the 32 bits of unsigned int and of int
IntBits == 5

VARIABLES
  \* ---- StdClient::process, control thread
  pc,                   \* position of the control thread in process()
  sent,                 \* frames written to the control connection, in order
  msg,                  \* std::string msg, the first frame read
  subclient_cnt,        \* int subclient_cnt
  result_dir,           \* std::string result_dir (match[2])
  dirs,                 \* directories created under working_dir
  spawned,              \* number of subclients created so far (loop index)
  joined,               \* number of subclient futures joined so far (loop index)
  has_acceptor,         \* this->file_acceptor != nullptr
  lines_read,           \* upload lines read so far
  upload,               \* the upload being served: [name, processed] or NoUpload
  file_conns,           \* connections accepted from the file acceptor
  files,                \* paths of the files opened for writing
  \* ---- state shared with the subclient threads
  accepted,             \* this->accepted
  accepted_mutex,       \* owner of this->accepted_mutex, or Free
  profile_start,        \* this->profile_start
  profile_start_tstamp, \* this->profile_start_tstamp
  \* ---- subclients
  sub,                  \* per subclient: position of its thread
  data_conns,           \* data connections accepted by the subclients
  result,               \* per subclient: the JSON result it yields
  \* ---- locals of the merge
  tids,                 \* std::unordered_set<std::string> tids
  thread_tree,          \* metadata["thread_tree"]
  callchains,           \* metadata["callchains"]
  offcpu_regions,       \* metadata["offcpu_regions"]
  sampled_times,        \* metadata["sampled_times"]
  final_output,         \* final_output
  \* ---- a connection's line reader (TCPSocket::read / FileDescriptor::read)
  rd,
  \* ---- a connection's writer (TCPSocket::write / FileDescriptor::write)
  wr,
  \* ---- PipeAcceptor::accept_connection
  pipe_acceptor,
  \* ---- TCPAcceptor::TCPAcceptor and get_connection_instructions
  tcp_acceptor,
  \* ---- main_entrypoint
  entrypoint,
  \* ---- one option of the command line, from its validator to its use
  option,
  \* ---- per subclient: its last call of get_profile_start_tstamp
  tstamp_get,
  \* ---- the transfer over the file connection of the upload being served
  xfer

procVars == <<pc, sent, msg, subclient_cnt, result_dir, dirs, spawned, joined,
              has_acceptor, lines_read, upload, file_conns, files,
              accepted, accepted_mutex, profile_start, profile_start_tstamp,
              sub, data_conns, result>>
mergeVars == <<tids, thread_tree, callchains, offcpu_regions, sampled_times,
               final_output>>
sideVars == <<pipe_acceptor, tcp_acceptor, entrypoint, option, tstamp_get,
              xfer>>
vars == <<procVars, mergeVars, rd, wr, sideVars>>

(***************************************************************************)
(* Characters and strings.                                                 *)
(***************************************************************************)
NL == "\n"
CR == "\r"
SP == " "
SLASH == "/"

DigitChars == <<"0", "1", "2", "3", "4", "5", "6", "7", "8", "9">>

IsDigit(c) == \E i \in 1..10 : DigitChars[i] = c

DigitVal(c) == (CHOOSE i \in 1..10 : DigitChars[i] = c) - 1

\* the decimal value of a string of digits
RECURSIVE DecVal(_)
DecVal(s) ==
  IF s = <<>> THEN 0
  ELSE 10 * DecVal(SubSeq(s, 1, Len(s) - 1)) + DigitVal(s[Len(s)])

\* std::to_string of a number below 100
DecString(n) ==
  IF n < 10 THEN <<DigitChars[n + 1]>>
  ELSE <<DigitChars[(n \div 10) + 1], DigitChars[(n % 10) + 1]>>

AllDigits(s) == \A i \in 1..Len(s) : IsDigit(s[i])

\* `.` of an ECMAScript regular expression: anything but a line terminator
IsDot(c) == c \notin {NL, CR}

StartsWith(s, p) == Len(s) >= Len(p) /\ SubSeq(s, 1, Len(p)) = p

Drop(s, n) == SubSeq(s, n + 1, Len(s))

\* length of the longest prefix of s made of digits (greedy \d*)
RECURSIVE DigitRun(_)
DigitRun(s) ==
  IF s # <<>> /\ IsDigit(s[1]) THEN 1 + DigitRun(Drop(s, 1)) ELSE 0

START == <<"s", "t", "a", "r", "t">>
STOP == <<"<", "S", "T", "O", "P", ">">>
CODE_PATHS == <<"c", "o", "d", "e", "_", "p", "a", "t", "h", "s", ".", "l", "s", "t">>

(***************************************************************************)
(* The first control frame, matched against start_regex: the word start,   *)
(* a digit 1 to 9, any digits, one space, one or more characters.          *)
(***************************************************************************)
\* a start_regex that asks for a space between the word and the count
StartMatchesSpaced(m) ==
  /\ StartsWith(m, Append(START, SP))
  /\ LET rest == Drop(m, Len(START) + 1)
         k == DigitRun(rest)
     IN /\ k >= 1
        /\ rest[1] # "0"
        /\ Len(rest) >= k + 2
        /\ rest[k + 1] = SP
        /\ \A i \in (k + 2)..Len(rest) : IsDot(rest[i])

\* regex_match(msg, match, start_regex)
StartMatches(m) ==
  /\ StartsWith(m, START)
  /\ LET rest == Drop(m, Len(START))
         k == DigitRun(rest)
     IN /\ k >= 1
        /\ rest[1] # "0"
        /\ Len(rest) >= k + 2
        /\ rest[k + 1] = SP
        /\ \A i \in (k + 2)..Len(rest) : IsDot(rest[i])

\* match[1], read by std::stoi
StartCount(m) ==
  LET rest == Drop(m, Len(START)) IN DecVal(SubSeq(rest, 1, DigitRun(rest)))

\* match[2]
StartDir(m) ==
  LET rest == Drop(m, Len(START)) IN Drop(rest, DigitRun(rest) + 1)

\* the frames a peer may send first: the word, a separator, a count, a
\* separator and a directory name, each of them right or wrong
StartWords == {START, <<"s", "t", "a", "r">>}
Separators == {<<>>, <<SP>>}
CountStrings ==
  {<<>>, <<"0">>, <<"0", "1">>} \cup {DecString(n) : n \in 1..MaxSubclients}
DirStrings == {<<>>, <<"r">>, <<CR>>}
StartFrames ==
  {w \o s1 \o c \o s2 \o d :
     w \in StartWords, s1 \in Separators, c \in CountStrings,
     s2 \in Separators, d \in DirStrings}

(***************************************************************************)
(* The timestamp frame: one or more digits, then std::stoull.              *)
(***************************************************************************)
\* one more than the largest unsigned long long
Modulus == 2 ^ TsBits

TstampMatches(m) == m # <<>> /\ AllDigits(m)

\* std::stoull throws std::out_of_range above ULLONG_MAX
StoullInRange(m) == DecVal(m) < Modulus

TstampChars == {"0", "1", "3", "9", "x"}
TstampFrames ==
  {<<>>} \cup {<<c>> : c \in TstampChars}
         \cup {<<c, d>> : c \in {"1", "x"}, d \in {"0", "x"}}

(***************************************************************************)
(* Frames written to the control connection.  n is the number of dial      *)
(* instructions of the instruction frame and 0 for every other frame.      *)
(***************************************************************************)
Frame(t) == [t |-> t, n |-> 0]
InstrFrame(n) == [t |-> "instr", n |-> n]

ErrorFrames ==
  {"error_wrong_command", "error_result_dir", "error_tstamp",
   "error_wrong_file_format", "error_out_file", "error_out_file_timeout"}

Free == "free"
Ctl == "ctl"
NoUpload == [name |-> <<>>, processed |-> FALSE, reply |-> "none"]
NoResult == [kind |-> "none"]
Subclients == 1..MaxSubclients

(***************************************************************************)
(* JSON objects are functions from keys to values; Put is operator[]       *)
(* followed by an assignment or a swap into the slot.                      *)
(***************************************************************************)
EmptyObject == <<>>

Put(obj, k, v) == [x \in (DOMAIN obj) \cup {k} |-> IF x = k THEN v ELSE obj[x]]

\* the order of bytes in a key, as std::map compares them
CharOrder == <<"0", "1", "2", "3", "4", "5", "6", "7", "8", "9", "_", "x">>

CharRank(c) == CHOOSE i \in 1..Len(CharOrder) : CharOrder[i] = c

RECURSIVE KeyLess(_, _)
KeyLess(a, b) ==
  IF b = <<>> THEN FALSE
  ELSE IF a = <<>> THEN TRUE
  ELSE IF a[1] # b[1] THEN CharRank(a[1]) < CharRank(b[1])
  ELSE KeyLess(Drop(a, 1), Drop(b, 1))

\* the keys of a JSON object in iteration order
RECURSIVE SortedKeys(_)
SortedKeys(S) ==
  IF S = {} THEN <<>>
  ELSE LET m == CHOOSE x \in S : \A y \in S \ {x} : KeyLess(x, y)
       IN <<m>> \o SortedKeys(S \ {m})

(***************************************************************************)
(* Subclient results.  A thread-tree probe yields the keys syscall_meta    *)
(* (a list of TIDs and their records) and syscall (chain id to frames); a  *)
(* sample probe yields one sample key holding an object per pid_tid key.   *)
(***************************************************************************)
Tids == 1..MaxTid

TidString(t) == DecString(t)

PidTidKey(p, t) == DecString(p) \o <<"_">> \o DecString(t)

\* pid_tid_regex: digits, an underscore, digits
PidTidMatches(key) ==
  LET k == DigitRun(key)
  IN /\ k >= 1
     /\ Len(key) >= k + 2
     /\ key[k + 1] = "_"
     /\ AllDigits(Drop(key, k + 1))

\* pid_tid_match[1] and pid_tid_match[2]
KeyPid(key) == SubSeq(key, 1, DigitRun(key))
KeyTid(key) == Drop(key, DigitRun(key) + 1)

\* the record the thread-tree probe holds for a TID
RealEntry(tid) ==
  [parent |-> <<>>, tag |-> <<"cmd", <<"1">> \o <<SLASH>> \o tid, 0, 1>>]

TreeResult(k) ==
  [kind |-> "tree",
   syscall_meta |-> [i \in 1..k |-> TidString(i)],
   syscall |-> IF k = 0 THEN EmptyObject ELSE Put(EmptyObject, <<"1">>, k),
   sample |-> EmptyObject]

SampleResult(obj) ==
  [kind |-> "sample", syscall_meta |-> <<>>, syscall |-> EmptyObject,
   sample |-> obj]

\* the objects a sample probe may hold for one pid_tid key
SampleEntries ==
  { [sampled_time |-> 1],
    [offcpu_regions |-> <<<<1, 1>>, <<Modulus - 1, 2>>>>, first_time |-> 1,
     cycles |-> 1],
    [offcpu_regions |-> <<<<0, 1>>>>, sampled_time |-> 2, cycles |-> 2] }

SampleKeys ==
  {PidTidKey(1, t) : t \in Tids} \cup {PidTidKey(2, 1), <<"x">>}

WideSample ==
  [k \in SampleKeys |->
     [offcpu_regions |-> <<<<1, 1>>, <<Modulus - 1, 2>>>>, first_time |-> 1,
      cycles |-> 1]]

SubclientResults ==
  {TreeResult(k) : k \in 0..MaxTid}
    \cup {SampleResult(Put(EmptyObject, k, e)) : k \in SampleKeys, e \in SampleEntries}
    \cup {SampleResult(WideSample)}

\* the results the subclients of a whole session are drawn from
SessionResults ==
  {TreeResult(1), SampleResult(Put(EmptyObject, PidTidKey(1, 1), [sampled_time |-> 1]))}

(***************************************************************************)
(* The merge of one subclient result into metadata and final_output.       *)
(***************************************************************************)
Null == <<>>

KnownFields == {"sampled_time", "offcpu_regions", "first_time"}

\* the merged structures, as the locals of process() hold them
EmptyMerge ==
  [tids |-> {}, thread_tree |-> <<>>, callchains |-> EmptyObject,
   offcpu_regions |-> EmptyObject, sampled_times |-> EmptyObject,
   final_output |-> EmptyObject]

\* the syscall_meta branch: one thread record per TID of the list
RECURSIVE MergeMeta(_, _)
MergeMeta(m, tidlist) ==
  IF tidlist = <<>> THEN m
  ELSE LET tid == tidlist[1]
           new_object == [identifier |-> tid,
                          parent |-> RealEntry(tid).parent,
                          tag |-> RealEntry(tid).tag]
       IN MergeMeta([m EXCEPT !.thread_tree = Append(@, new_object),
                              !.tids = @ \cup {tid}],
                    Drop(tidlist, 1))

\* the syscall branch: every chain is swapped into metadata.callchains
RECURSIVE MergeChains(_, _, _)
MergeChains(m, obj, keys) ==
  IF keys = <<>> THEN m
  ELSE MergeChains([m EXCEPT !.callchains = Put(@, keys[1], obj[keys[1]])],
                   obj, Drop(keys, 1))

\* a test of the known TIDs that never asks for a placeholder
NeedsPlaceholderNever(tidset, tid) == FALSE

\* tids.find(pid_tid_match[2]) == tids.end()
NeedsPlaceholder(tidset, tid) == tid \notin tidset

Placeholder(key) ==
  [identifier |-> KeyTid(key), parent |-> Null,
   tag |-> <<"?", KeyPid(key) \o <<SLASH>> \o KeyTid(key), -1, -1>>]

\* a chain of tests without the one of first_time
RouteAll(f) ==
  IF f = "sampled_time" THEN "sampled_times"
  ELSE IF f = "offcpu_regions" THEN "offcpu_regions"
  ELSE "final_output"

\* the chain of tests on elem3.key(): where a field goes
Route(f) ==
  IF f = "sampled_time" THEN "sampled_times"
  ELSE IF f = "offcpu_regions" THEN "offcpu_regions"
  ELSE IF f # "first_time" THEN "final_output"
  ELSE "nowhere"

\* the fields of one pid_tid object, routed to their destinations
RECURSIVE MergeFields(_, _, _, _)
MergeFields(m, key, e, fields) ==
  IF fields = {} THEN m
  ELSE LET f == CHOOSE x \in fields : TRUE
           m2 ==
             IF Route(f) = "sampled_times"
               THEN [m EXCEPT !.sampled_times = Put(@, key, e[f])]
             ELSE IF Route(f) = "offcpu_regions"
               THEN [m EXCEPT !.offcpu_regions = Put(@, key, e[f])]
             ELSE IF Route(f) = "final_output"
               THEN [m EXCEPT !.final_output =
                       Put(@, key,
                           Put(IF key \in DOMAIN @ THEN @[key] ELSE EmptyObject,
                               f, e[f]))]
             ELSE m
       IN MergeFields(m2, key, e, fields \ {f})

\* the pid_tid objects of a sample key, in iteration order
RECURSIVE MergeSample(_, _, _)
MergeSample(m, obj, keys) ==
  IF keys = <<>> THEN m
  ELSE LET key == keys[1]
           m2 ==
             IF ~PidTidMatches(key) THEN m
             ELSE MergeFields(
                    IF NeedsPlaceholder(m.tids, KeyTid(key))
                      THEN [m EXCEPT !.thread_tree = Append(@, Placeholder(key))]
                      ELSE m,
                    key, obj[key], DOMAIN obj[key])
       IN MergeSample(m2, obj, Drop(keys, 1))

\* the body of the loop over subclients, for one thread_result
MergeResult(m, r) ==
  LET m1 == MergeMeta(m, r.syscall_meta)
      m2 == MergeChains(m1, r.syscall, SortedKeys(DOMAIN r.syscall))
  IN MergeSample(m2, r.sample, SortedKeys(DOMAIN r.sample))

\* the subtraction made on signed integers
RebaseTsSigned(ts, epoch) == ts - epoch

\* (unsigned long long)ts - profile_start_tstamp
RebaseTs(ts, epoch) == (ts - epoch + Modulus) % Modulus

\* the loop over metadata.offcpu_regions after the merge
Rebase(regions, epoch) ==
  [k \in DOMAIN regions |->
     [i \in 1..Len(regions[k]) |->
        <<RebaseTs(regions[k][i][1], epoch), regions[k][i][2]>>]]

(***************************************************************************)
(* Paths.  A path is the tuple of its components; the first component of   *)
(* an absolute path is the root, written SLASH.                            *)
(***************************************************************************)
\* the components of a name, as fs::path splits it at slashes
RECURSIVE Components(_, _)
Components(name, cur) ==
  IF name = <<>> THEN (IF cur = <<>> THEN <<>> ELSE <<cur>>)
  ELSE IF name[1] = SLASH
    THEN (IF cur = <<>> THEN <<>> ELSE <<cur>>) \o Components(Drop(name, 1), <<>>)
    ELSE Components(Drop(name, 1), Append(cur, name[1]))

\* base / name: an absolute right-hand side replaces the base
PathJoin(base, name) ==
  IF name # <<>> /\ name[1] = SLASH
    THEN <<<<SLASH>>>> \o Components(name, <<>>)
    ELSE base \o Components(name, <<>>)

\* the file a path names once the system has walked its dot and dot-dot
\* components
RECURSIVE Resolve(_, _)
Resolve(path, acc) ==
  IF path = <<>> THEN acc
  ELSE IF path[1] = <<".">> THEN Resolve(Drop(path, 1), acc)
  ELSE IF path[1] = <<".", ".">>
    THEN Resolve(Drop(path, 1),
                 IF Len(acc) > 1 THEN SubSeq(acc, 1, Len(acc) - 1) ELSE acc)
  ELSE Resolve(Drop(path, 1), Append(acc, path[1]))

working_dir == <<<<SLASH>>, <<"w">>>>
PROCESSED == <<"p", "r", "o", "c", "e", "s", "s", "e", "d">>
OUT == <<"o", "u", "t">>

\* result_path, processed_path and out_path of process()
ResultPath(dir) == Resolve(PathJoin(working_dir, dir), <<>>)
ProcessedPath(dir) == Append(ResultPath(dir), PROCESSED)
OutPath(dir) == Append(ResultPath(dir), OUT)

\* fs::path path = (processed ? processed_path : out_path) / name
UploadPath(dir, processed, name) ==
  Resolve(PathJoin(IF processed THEN ProcessedPath(dir) ELSE OutPath(dir), name),
          <<>>)

SRC_ZIP == <<"s", "r", "c", ".", "z", "i", "p">>
METADATA_JSON == <<"m", "e", "t", "a", "d", "a", "t", "a", ".", "j", "s", "o", "n">>
DOT_JSON == <<".", "j", "s", "o", "n">>

\* the lines a peer may send in the upload phase
UploadLines ==
  { STOP,
    <<"p", SP, "f">>, <<"o", SP, "f">>,
    <<"p", SP, ".", ".", SLASH, "x">>, <<"o", SP, "a", SLASH, "b">>,
    <<"p", SP, SLASH, "e">>,
    <<"x", SP, "f">>, <<"p", "f">>, <<"p", "_", "f">>,
    <<"p", SP>> \o CODE_PATHS }

\* the checks of a line without the check of the second character
WellFormedLineLax(x) ==
  /\ ~(Len(x) < 3)
  /\ x[1] \in {"p", "o"}

\* the checks of a line before a file connection is accepted
WellFormedLine(x) ==
  /\ ~(Len(x) < 3)
  /\ x[1] \in {"p", "o"}
  /\ ~(x[2] # SP)

(***************************************************************************)
(* StdClient::process, the control thread.                                 *)
(***************************************************************************)
\* the state of a StdClient after its constructor
ClientInit ==
  /\ pc = "AwaitStart"
  /\ sent = <<>>
  /\ msg = <<>>
  /\ subclient_cnt = 0
  /\ result_dir = <<>>
  /\ dirs = {}
  /\ spawned = 0
  /\ joined = 0
  /\ lines_read = 0
  /\ upload = NoUpload
  /\ file_conns = 0
  /\ files = {}
  /\ accepted = 0
  /\ accepted_mutex = Free
  /\ profile_start = FALSE
  /\ profile_start_tstamp = 0
  /\ sub = [i \in Subclients |-> "none"]
  /\ data_conns = 0
  /\ result = [i \in Subclients |-> NoResult]
  /\ tids = EmptyMerge.tids
  /\ thread_tree = EmptyMerge.thread_tree
  /\ callchains = EmptyMerge.callchains
  /\ offcpu_regions = EmptyMerge.offcpu_regions
  /\ sampled_times = EmptyMerge.sampled_times
  /\ final_output = EmptyMerge.final_output

\* a counting loop that stops one turn early
LoopRunsShort(i, n) == i < n - 1

\* the condition of a counting loop: for (int i = 0; i < n; i++)
LoopRuns(i, n) == i < n

\* a wait that ends one notification early
BarrierOpenEarly(acc, n) == ~(acc < n - 1)

\* the negation of the wait condition: while (this->accepted < subclient_cnt)
BarrierOpen(acc, n) == ~(acc < n)

\* the test of file_acceptor inverted
TerminalFrameSwapped(acceptor) ==
  IF acceptor THEN "profiling_finished" ELSE "out_files"

\* the frame that opens the last phase: file_acceptor == nullptr or not
TerminalFrame(acceptor) == IF acceptor THEN "out_files" ELSE "profiling_finished"

\* leaving process(): the unique_lock, if taken, is released
Leave(to) ==
  /\ pc' = to
  /\ accepted_mutex' = IF accepted_mutex = Ctl THEN Free ELSE accepted_mutex

\* connection->write(t, true) followed by the step to the next position
Write(t, to) == sent' = Append(sent, Frame(t)) /\ pc' = to

\* a write of an error frame after which the return is missing
WriteAndGoOn(t) ==
  /\ sent' = Append(sent, Frame(t))
  /\ pc' = pc
  /\ accepted_mutex' = accepted_mutex

\* connection->write(t, true); return
WriteAndReturn(t) == sent' = Append(sent, Frame(t)) /\ Leave("Returned")

\* msg = connection->read() and the match against start_regex
ReadStart(m) ==
  /\ pc = "AwaitStart"
  /\ msg' = m
  /\ IF ~StartMatches(m)
       THEN /\ WriteAndReturn("error_wrong_command")
            /\ UNCHANGED <<subclient_cnt, result_dir>>
       ELSE /\ subclient_cnt' = StartCount(m)
            /\ result_dir' = StartDir(m)
            /\ pc' = "CreateDirs"
            /\ UNCHANGED <<sent, accepted_mutex>>
  /\ UNCHANGED <<dirs, spawned, joined, has_acceptor, lines_read, upload,
                 file_conns, files, accepted, profile_start,
                 profile_start_tstamp, sub, data_conns, result, mergeVars,
                 rd, wr, sideVars>>

\* the three fs::create_directory calls; made is the number that succeeded
\* before one threw
CreateDirs(made) ==
  /\ pc = "CreateDirs"
  /\ LET all == <<ResultPath(result_dir), ProcessedPath(result_dir),
                  OutPath(result_dir)>>
     IN dirs' = dirs \cup {all[i] : i \in 1..made}
  /\ IF made = 3
       THEN pc' = "AwaitFilename" /\ UNCHANGED <<sent, accepted_mutex>>
       ELSE WriteAndReturn("error_result_dir")
  /\ UNCHANGED <<msg, subclient_cnt, result_dir, spawned, joined, has_acceptor,
                 lines_read, upload, file_conns, files, accepted,
                 profile_start, profile_start_tstamp, sub, data_conns, result,
                 mergeVars, rd, wr, sideVars>>

\* profiled_filename = connection->read()
ReadFilename ==
  /\ pc = "AwaitFilename"
  /\ pc' = "Spawn"
  /\ UNCHANGED <<sent, msg, subclient_cnt, result_dir, dirs, spawned, joined,
                 has_acceptor, lines_read, upload, file_conns, files, accepted,
                 accepted_mutex, profile_start, profile_start_tstamp, sub,
                 data_conns, result, mergeVars, rd, wr, sideVars>>

\* one turn of the loop that makes a subclient and starts its thread
Spawn ==
  /\ pc = "Spawn"
  /\ IF LoopRuns(spawned, subclient_cnt)
       THEN /\ spawned' = spawned + 1
            /\ sub' = [sub EXCEPT ![spawned + 1] = "created"]
            /\ pc' = pc
       ELSE /\ pc' = "SendInstr"
            /\ UNCHANGED <<spawned, sub>>
  /\ UNCHANGED <<sent, msg, subclient_cnt, result_dir, dirs, joined, has_acceptor,
                 lines_read, upload, file_conns, files, accepted,
                 accepted_mutex, profile_start, profile_start_tstamp,
                 data_conns, result, mergeVars, rd, wr, sideVars>>

\* the number of turns of a counting loop from 0 to n
RECURSIVE LoopCount(_, _)
LoopCount(i, n) == IF LoopRuns(i, n) THEN 1 + LoopCount(i + 1, n) ELSE 0

\* instr_msg: the type and one dial instruction per subclient
SendInstr ==
  /\ pc = "SendInstr"
  /\ sent' = Append(sent, InstrFrame(LoopCount(0, subclient_cnt)))
  /\ pc' = "Lock"
  /\ UNCHANGED <<msg, subclient_cnt, result_dir, dirs, spawned, joined,
                 has_acceptor, lines_read, upload, file_conns, files, accepted,
                 accepted_mutex, profile_start, profile_start_tstamp, sub,
                 data_conns, result, mergeVars, rd, wr, sideVars>>

\* std::unique_lock lock(this->accepted_mutex), and the lock taken again
\* when a wait ends
Lock ==
  /\ pc \in {"Lock", "Woken"}
  /\ accepted_mutex = Free
  /\ accepted_mutex' = Ctl
  /\ pc' = "Check"
  /\ UNCHANGED <<sent, msg, subclient_cnt, result_dir, dirs, spawned, joined,
                 has_acceptor, lines_read, upload, file_conns, files, accepted,
                 profile_start, profile_start_tstamp, sub, data_conns, result,
                 mergeVars, rd, wr, sideVars>>

\* the test of the wait loop; accepted_cond.wait(lock) releases the mutex
Check ==
  /\ pc = "Check"
  /\ IF BarrierOpen(accepted, subclient_cnt)
       THEN pc' = "StartProfile" /\ UNCHANGED accepted_mutex
       ELSE pc' = "Waiting" /\ accepted_mutex' = Free
  /\ UNCHANGED <<sent, msg, subclient_cnt, result_dir, dirs, spawned, joined,
                 has_acceptor, lines_read, upload, file_conns, files, accepted,
                 profile_start, profile_start_tstamp, sub, data_conns, result,
                 mergeVars, rd, wr, sideVars>>

\* a wait may end without a notification
SpuriousWake ==
  /\ pc = "Waiting"
  /\ pc' = "Woken"
  /\ UNCHANGED <<sent, msg, subclient_cnt, result_dir, dirs, spawned, joined,
                 has_acceptor, lines_read, upload, file_conns, files, accepted,
                 accepted_mutex, profile_start, profile_start_tstamp, sub,
                 data_conns, result, mergeVars, rd, wr, sideVars>>

\* connection->write("start_profile", true)
SendStartProfile ==
  /\ pc = "StartProfile"
  /\ Write("start_profile", "AwaitTimestamp")
  /\ UNCHANGED <<msg, subclient_cnt, result_dir, dirs, spawned, joined,
                 has_acceptor, lines_read, upload, file_conns, files, accepted,
                 accepted_mutex, profile_start, profile_start_tstamp, sub,
                 data_conns, result, mergeVars, rd, wr, sideVars>>

\* tstamp_msg = connection->read(), the match and std::stoull
ReadTstamp(tstamp_msg) ==
  /\ pc = "AwaitTimestamp"
  /\ IF ~TstampMatches(tstamp_msg)
       THEN /\ WriteAndReturn("error_tstamp")
            /\ UNCHANGED <<profile_start, profile_start_tstamp>>
       ELSE IF ~StoullInRange(tstamp_msg)
         THEN /\ Leave("Thrown")
              /\ UNCHANGED <<sent, profile_start, profile_start_tstamp>>
         ELSE /\ profile_start_tstamp' = DecVal(tstamp_msg)
              /\ profile_start' = TRUE
              /\ pc' = "TstampAck"
              /\ UNCHANGED <<sent, accepted_mutex>>
  /\ UNCHANGED <<msg, subclient_cnt, result_dir, dirs, spawned, joined,
                 has_acceptor, lines_read, upload, file_conns, files, accepted,
                 sub, data_conns, result, mergeVars, rd, wr, sideVars>>

\* connection->write("tstamp_ack", true)
SendTstampAck ==
  /\ pc = "TstampAck"
  /\ Write("tstamp_ack", "Join")
  /\ UNCHANGED <<msg, subclient_cnt, result_dir, dirs, spawned, joined,
                 has_acceptor, lines_read, upload, file_conns, files, accepted,
                 accepted_mutex, profile_start, profile_start_tstamp, sub,
                 data_conns, result, mergeVars, rd, wr, sideVars>>

\* the subclients taken from the last to the first
SubclientAtReverse(i, n) == n - i

\* threads[i] and subclients[i] of turn i of the loop, counted from 1
SubclientAt(i, n) == i + 1

\* one turn of the loop over subclients: threads[i].get(), which rethrows
\* what the subclient threw, then the merge of subclients[i]->get_result()
Join ==
  /\ pc = "Join"
  /\ IF LoopRuns(joined, subclient_cnt)
       THEN /\ sub[SubclientAt(joined, subclient_cnt)] \in {"done", "failed", "aborted"}
            /\ IF sub[SubclientAt(joined, subclient_cnt)] # "done"
                 THEN /\ Leave("Thrown")
                      /\ UNCHANGED <<joined, mergeVars>>
                 ELSE LET m == MergeResult(
                                 [tids |-> tids, thread_tree |-> thread_tree,
                                  callchains |-> callchains,
                                  offcpu_regions |-> offcpu_regions,
                                  sampled_times |-> sampled_times,
                                  final_output |-> final_output],
                                 result[SubclientAt(joined, subclient_cnt)])
                      IN /\ joined' = joined + 1
                         /\ tids' = m.tids
                         /\ thread_tree' = m.thread_tree
                         /\ callchains' = m.callchains
                         /\ offcpu_regions' = m.offcpu_regions
                         /\ sampled_times' = m.sampled_times
                         /\ final_output' = m.final_output
                         /\ UNCHANGED <<pc, accepted_mutex>>
       ELSE /\ pc' = "Rebase"
            /\ UNCHANGED <<joined, mergeVars, accepted_mutex>>
  /\ UNCHANGED <<sent, msg, subclient_cnt, result_dir, dirs, spawned, has_acceptor,
                 lines_read, upload, file_conns, files, accepted,
                 profile_start, profile_start_tstamp, sub, data_conns, result,
                 rd, wr, sideVars>>

\* the rebase of every off-CPU region against profile_start_tstamp
RebaseRegions ==
  /\ pc = "Rebase"
  /\ offcpu_regions' = Rebase(offcpu_regions, profile_start_tstamp)
  /\ pc' = "Save"
  /\ UNCHANGED <<sent, msg, subclient_cnt, result_dir, dirs, spawned, joined,
                 has_acceptor, lines_read, upload, file_conns, files, accepted,
                 accepted_mutex, profile_start, profile_start_tstamp, sub,
                 data_conns, result, tids, thread_tree, callchains,
                 sampled_times, final_output, rd, wr, sideVars>>

\* the files the save lambdas are started for
SaveTargets ==
  {Append(ProcessedPath(result_dir), METADATA_JSON)}
    \cup {Resolve(PathJoin(ProcessedPath(result_dir), k \o DOT_JSON), <<>>) :
            k \in DOMAIN final_output}

\* the save futures; opened holds the files whose stream could be opened
Save(opened) ==
  /\ pc = "Save"
  /\ opened \subseteq SaveTargets
  /\ files' = files \cup opened
  /\ pc' = "Terminal"
  /\ UNCHANGED <<sent, msg, subclient_cnt, result_dir, dirs, spawned, joined,
                 has_acceptor, lines_read, upload, file_conns, accepted,
                 accepted_mutex, profile_start, profile_start_tstamp, sub,
                 data_conns, result, mergeVars, rd, wr, sideVars>>

\* profiling_finished without a file acceptor, out_files with one
SendTerminal ==
  /\ pc = "Terminal"
  /\ Write(TerminalFrame(has_acceptor),
           IF has_acceptor THEN "FileInstr" ELSE "Finish")
  /\ UNCHANGED <<msg, subclient_cnt, result_dir, dirs, spawned, joined,
                 has_acceptor, lines_read, upload, file_conns, files, accepted,
                 accepted_mutex, profile_start, profile_start_tstamp, sub,
                 data_conns, result, mergeVars, rd, wr, sideVars>>

\* the type and the dial instructions of the file acceptor
SendFileInstr ==
  /\ pc = "FileInstr"
  /\ Write("file_instr", "AwaitFiles")
  /\ UNCHANGED <<msg, subclient_cnt, result_dir, dirs, spawned, joined,
                 has_acceptor, lines_read, upload, file_conns, files, accepted,
                 accepted_mutex, profile_start, profile_start_tstamp, sub,
                 data_conns, result, mergeVars, rd, wr, sideVars>>

\* x = connection->read() in the upload loop, the checks of x and
\* file_acceptor->accept(1)
ReadUploadLine(x) ==
  /\ pc = "AwaitFiles"
  /\ x = STOP \/ lines_read < MaxLines
  /\ IF x = STOP
       THEN /\ pc' = "Finish"
            /\ UNCHANGED <<sent, lines_read, upload, file_conns>>
       ELSE IF ~WellFormedLine(x)
         THEN /\ Write("error_wrong_file_format", "AwaitFiles")
              /\ lines_read' = lines_read + 1
              /\ UNCHANGED <<upload, file_conns>>
         ELSE /\ upload' = [name |-> Drop(x, 2), processed |-> (x[1] = "p"),
                            reply |-> "none"]
              /\ file_conns' = file_conns + 1
              /\ lines_read' = lines_read + 1
              /\ pc' = "Upload"
              /\ UNCHANGED sent
  /\ UNCHANGED <<msg, subclient_cnt, result_dir, dirs, spawned, joined,
                 has_acceptor, files, accepted, accepted_mutex, profile_start,
                 profile_start_tstamp, sub, data_conns, result, mergeVars,
                 rd, wr, sideVars>>

UploadOutcomes == {"ok", "open_fail", "write_err", "timeout", "conn_err"}

\* a timeout answered like a write error
ReplyOfNoTimeout(outcome) ==
  IF outcome = "ok" THEN "out_file_ok" ELSE "error_out_file"

\* the reply that follows the transfer of one file
ReplyOf(outcome) ==
  IF outcome = "ok" THEN "out_file_ok"
  ELSE IF outcome = "timeout" THEN "error_out_file_timeout"
  ELSE "error_out_file"

\* the body of the try block for one accepted file connection
ServeUpload(outcome) ==
  /\ pc = "Upload"
  /\ LET path == UploadPath(result_dir, upload.processed, upload.name)
         archive == Append(ProcessedPath(result_dir), SRC_ZIP)
     IN IF upload.name = CODE_PATHS
          THEN /\ outcome \in {"ok", "conn_err"}
               /\ files' = IF outcome = "ok" THEN files \cup {archive} ELSE files
          ELSE /\ outcome = "open_fail" \/ (path \notin dirs /\ Len(path) > 1)
               /\ files' = IF outcome = "open_fail" THEN files
                           ELSE files \cup {path}
  /\ IF outcome = "conn_err"
       THEN Leave("Thrown") /\ UNCHANGED upload
       ELSE /\ upload' = [upload EXCEPT !.reply = ReplyOf(outcome)]
            /\ pc' = "Reply"
            /\ UNCHANGED accepted_mutex
  /\ UNCHANGED <<sent, msg, subclient_cnt, result_dir, dirs, spawned, joined,
                 has_acceptor, lines_read, file_conns, accepted,
                 profile_start, profile_start_tstamp, sub, data_conns, result,
                 mergeVars, rd, wr, sideVars>>

\* out_file_ok, error_out_file or error_out_file_timeout
SendReply ==
  /\ pc = "Reply"
  /\ Write(upload.reply, "AwaitFiles")
  /\ upload' = NoUpload
  /\ UNCHANGED <<msg, subclient_cnt, result_dir, dirs, spawned, joined,
                 has_acceptor, lines_read, file_conns, files, accepted,
                 accepted_mutex, profile_start, profile_start_tstamp, sub,
                 data_conns, result, mergeVars, rd, wr, sideVars>>

\* connection->write("finished", true)
SendFinished ==
  /\ pc = "Finish"
  /\ sent' = Append(sent, Frame("finished"))
  /\ Leave("Done")
  /\ UNCHANGED <<msg, subclient_cnt, result_dir, dirs, spawned, joined,
                 has_acceptor, lines_read, upload, file_conns, files, accepted,
                 profile_start, profile_start_tstamp, sub, data_conns, result,
                 mergeVars, rd, wr, sideVars>>

\* the positions at which the next statement reads or writes the control
\* connection
ControlIO ==
  {"AwaitStart", "AwaitFilename", "SendInstr", "StartProfile",
   "AwaitTimestamp", "TstampAck", "Terminal", "FileInstr", "AwaitFiles",
   "Reply", "Finish"}

\* a read or a write of the control connection throws ConnectionException
ConnFails ==
  /\ pc \in ControlIO
  /\ Leave("Thrown")
  /\ UNCHANGED <<sent, msg, subclient_cnt, result_dir, dirs, spawned, joined,
                 has_acceptor, lines_read, upload, file_conns, files, accepted,
                 profile_start, profile_start_tstamp, sub, data_conns, result,
                 mergeVars, rd, wr, sideVars>>

(***************************************************************************)
(* The subclient threads.  Subclient::process accepts the data connection, *)
(* calls StdClient::notify, receives the probe's records and yields a      *)
(* result or throws.                                                       *)
(***************************************************************************)
\* the subclient accepts its data connection
SubAccept(i) ==
  /\ sub[i] = "created"
  /\ sub' = [sub EXCEPT ![i] = "accepted"]
  /\ data_conns' = data_conns + 1
  /\ UNCHANGED <<pc, sent, msg, subclient_cnt, result_dir, dirs, spawned, joined,
                 has_acceptor, lines_read, upload, file_conns, files, accepted,
                 accepted_mutex, profile_start, profile_start_tstamp, result,
                 mergeVars, rd, wr, sideVars>>

\* notify(): std::lock_guard lock(this->accepted_mutex)
NotifyLock(i) ==
  /\ sub[i] = "accepted"
  /\ accepted_mutex = Free
  /\ accepted_mutex' = "sub"
  /\ sub' = [sub EXCEPT ![i] = "locked"]
  /\ UNCHANGED <<pc, sent, msg, subclient_cnt, result_dir, dirs, spawned, joined,
                 has_acceptor, lines_read, upload, file_conns, files, accepted,
                 profile_start, profile_start_tstamp, data_conns, result,
                 mergeVars, rd, wr, sideVars>>

\* notify(): this->accepted++ and the end of the guarded block
NotifyCount(i) ==
  /\ sub[i] = "locked"
  /\ accepted' = accepted + 1
  /\ accepted_mutex' = Free
  /\ sub' = [sub EXCEPT ![i] = "unlocked"]
  /\ UNCHANGED <<pc, sent, msg, subclient_cnt, result_dir, dirs, spawned, joined,
                 has_acceptor, lines_read, upload, file_conns, files,
                 profile_start, profile_start_tstamp, data_conns, result,
                 mergeVars, rd, wr, sideVars>>

\* a notification that reaches no thread
WakeNone(p) == p

\* the effect of notify_all() on the control thread: a thread blocked in
\* accepted_cond.wait(lock) is unblocked, any other is left alone
Wake(p) == IF p = "Waiting" THEN "Woken" ELSE p

\* notify(): this->accepted_cond.notify_all()
NotifyAll(i) ==
  /\ sub[i] = "unlocked"
  /\ sub' = [sub EXCEPT ![i] = "running"]
  /\ pc' = Wake(pc)
  /\ UNCHANGED <<sent, msg, subclient_cnt, result_dir, dirs, spawned, joined,
                 has_acceptor, lines_read, upload, file_conns, files, accepted,
                 accepted_mutex, profile_start, profile_start_tstamp,
                 data_conns, result, mergeVars, rd, wr, sideVars>>

\* the probe closes its connection and the subclient yields its result
SubFinish(i, r) ==
  /\ sub[i] = "running"
  /\ sub' = [sub EXCEPT ![i] = "done"]
  /\ result' = [result EXCEPT ![i] = r]
  /\ UNCHANGED <<pc, sent, msg, subclient_cnt, result_dir, dirs, spawned, joined,
                 has_acceptor, lines_read, upload, file_conns, files, accepted,
                 accepted_mutex, profile_start, profile_start_tstamp,
                 data_conns, mergeVars, rd, wr, sideVars>>

\* the subclient throws: before its accept (aborted) or while it receives
\* (failed)
SubFail(i) ==
  /\ sub[i] \in {"created", "running"}
  /\ sub' = [sub EXCEPT ![i] = IF sub[i] = "created" THEN "aborted" ELSE "failed"]
  /\ UNCHANGED <<pc, sent, msg, subclient_cnt, result_dir, dirs, spawned, joined,
                 has_acceptor, lines_read, upload, file_conns, files, accepted,
                 accepted_mutex, profile_start, profile_start_tstamp,
                 data_conns, result, mergeVars, rd, wr, sideVars>>

(***************************************************************************)
(* A whole session.                                                        *)
(***************************************************************************)
NoReader == [pc |-> "off"]
NoWriter == [pc |-> "off"]

\* the acceptors and the entry point are not part of a session's steps
\* a subclient that has not called get_profile_start_tstamp
NoGet == [called |-> FALSE, locked |-> FALSE, ok |-> FALSE, tstamp |-> 0]

NoGets == [i \in Subclients |-> NoGet]

\* no file connection is open
NoTransfer == [pc |-> "none"]

SideOff ==
  /\ tstamp_get = NoGets
  /\ xfer = NoTransfer
  /\ pipe_acceptor = [pc |-> "off"]
  /\ tcp_acceptor = [pc |-> "off"]
  /\ entrypoint = [pc |-> "off"]
  /\ option = [pc |-> "off"]

Init ==
  /\ ClientInit
  /\ has_acceptor \in BOOLEAN
  /\ rd = NoReader
  /\ wr = NoWriter
  /\ SideOff

Next ==
  \/ \E m \in StartFrames : ReadStart(m)
  \/ \E made \in 0..3 : CreateDirs(made)
  \/ ReadFilename
  \/ Spawn
  \/ SendInstr
  \/ Lock
  \/ Check
  \/ SpuriousWake
  \/ SendStartProfile
  \/ \E m \in TstampFrames : ReadTstamp(m)
  \/ SendTstampAck
  \/ Join
  \/ RebaseRegions
  \/ \E opened \in SUBSET SaveTargets : Save(opened)
  \/ SendTerminal
  \/ SendFileInstr
  \/ \E x \in UploadLines : ReadUploadLine(x)
  \/ \E outcome \in UploadOutcomes : ServeUpload(outcome)
  \/ SendReply
  \/ SendFinished
  \/ ConnFails
  \/ \E i \in Subclients : SubAccept(i)
  \/ \E i \in Subclients : NotifyLock(i)
  \/ \E i \in Subclients : NotifyCount(i)
  \/ \E i \in Subclients : NotifyAll(i)
  \/ \E i \in Subclients, r \in SessionResults : SubFinish(i, r)
  \/ \E i \in Subclients : SubFail(i)

Spec == Init /\ [][Next]_vars

(***************************************************************************)
(* The merge on its own: process() has sent tstamp_ack, every subclient    *)
(* has returned, and the results are any list of subclient results.        *)
(***************************************************************************)
Epochs == {0, 1, Modulus - 1}

SessionDir == <<"r">>

InitMerge ==
  /\ pc = "Join"
  /\ subclient_cnt \in 1..MaxSubclients
  /\ sent = <<InstrFrame(subclient_cnt), Frame("start_profile"),
              Frame("tstamp_ack")>>
  /\ msg = START \o DecString(subclient_cnt) \o <<SP>> \o SessionDir
  /\ result_dir = SessionDir
  /\ dirs = {ResultPath(SessionDir), ProcessedPath(SessionDir),
             OutPath(SessionDir)}
  /\ spawned = subclient_cnt
  /\ joined = 0
  /\ has_acceptor = FALSE
  /\ lines_read = 0
  /\ upload = NoUpload
  /\ file_conns = 0
  /\ files = {}
  /\ accepted = subclient_cnt
  /\ accepted_mutex = Ctl
  /\ profile_start = TRUE
  /\ profile_start_tstamp \in Epochs
  /\ sub = [i \in Subclients |-> IF i <= subclient_cnt THEN "done" ELSE "none"]
  /\ data_conns = subclient_cnt
  /\ \E rs \in [1..subclient_cnt -> SubclientResults] :
       result = [i \in Subclients |-> IF i <= subclient_cnt THEN rs[i] ELSE NoResult]
  /\ tids = EmptyMerge.tids
  /\ thread_tree = EmptyMerge.thread_tree
  /\ callchains = EmptyMerge.callchains
  /\ offcpu_regions = EmptyMerge.offcpu_regions
  /\ sampled_times = EmptyMerge.sampled_times
  /\ final_output = EmptyMerge.final_output
  /\ rd = NoReader
  /\ wr = NoWriter
  /\ SideOff

NextMerge ==
  \/ Join
  \/ RebaseRegions

SpecMerge == InitMerge /\ [][NextMerge]_vars

\* the positions of process() at which the loop over subclients has ended
MergedPositions ==
  {"Rebase", "Save", "Terminal", "FileInstr", "AwaitFiles", "Upload", "Reply",
   "Finish", "Done"}

Merged == pc \in MergedPositions

Range(seq) == {seq[i] : i \in 1..Len(seq)}

\* the results of the subclients of the session
Results == {result[i] : i \in 1..subclient_cnt}

\* the pid_tid keys found under the sample keys of the results
SampledKeys == {k \in UNION {DOMAIN r.sample : r \in Results} : PidTidMatches(k)}

\* the TIDs observed by the probes of the session
ObservedTids ==
  UNION {Range(r.syscall_meta) : r \in Results} \cup {KeyTid(k) : k \in SampledKeys}

\* C5: after the merge, metadata.thread_tree holds exactly one entry per TID
\* observed and no two of its entries have the same identifier.
C5_OneEntryPerTid ==
  Merged =>
    /\ {thread_tree[j].identifier : j \in 1..Len(thread_tree)} = ObservedTids
    /\ \A i, j \in 1..Len(thread_tree) :
         i # j => thread_tree[i].identifier # thread_tree[j].identifier

\* C6: after the merge, every pid_tid key found under a sample key has an
\* entry for its TID in metadata.thread_tree: the record the thread-tree
\* probe supplied for it, or a synthetic one with parent null and the tag
\* ?, pid/tid, -1, -1.
C6_EveryKeyHasThread ==
  Merged =>
    \A k \in SampledKeys :
      \E j \in 1..Len(thread_tree) :
        LET e == thread_tree[j]
        IN /\ e.identifier = KeyTid(k)
           /\ \/ /\ \E r \in Results : KeyTid(k) \in Range(r.syscall_meta)
                 /\ e.tag[1] = "cmd"
              \/ /\ e.parent = <<>>
                 /\ e.tag = <<"?", KeyPid(k) \o <<"/">> \o KeyTid(k), -1, -1>>

\* a sampled TID with a real record and another with a synthetic one
C6_Witness ==
  /\ Merged
  /\ \E k1, k2 \in SampledKeys :
       /\ \E j \in 1..Len(thread_tree) :
            thread_tree[j].identifier = KeyTid(k1) /\ thread_tree[j].tag[1] = "cmd"
       /\ KeyTid(k2) # KeyTid(k1)
       /\ \E j \in 1..Len(thread_tree) :
            thread_tree[j].identifier = KeyTid(k2) /\ thread_tree[j].tag[1] = "?"

\* C7: the rebase replaces the start of every off-CPU region by ts minus
\* profile_start_tstamp taken as an unsigned subtraction (never negative,
\* the exact difference when the epoch is not after ts), once for each
\* region, and leaves the durations, the keys and the lengths alone.
C7_RebaseUnsigned ==
  [][(pc = "Rebase" /\ pc' = "Save") =>
       /\ DOMAIN offcpu_regions' = DOMAIN offcpu_regions
       /\ \A k \in DOMAIN offcpu_regions :
            /\ Len(offcpu_regions'[k]) = Len(offcpu_regions[k])
            /\ \A i \in 1..Len(offcpu_regions[k]) :
                 LET old == offcpu_regions[k][i]
                     new == offcpu_regions'[k][i]
                     diff == old[1] - profile_start_tstamp
                 IN /\ new[1] \in 0..(Modulus - 1)
                    /\ new[1] = IF diff >= 0 THEN diff ELSE diff + Modulus
                    /\ new[2] = old[2]]_vars

\* a rebased list of two regions, one that wrapped and one that did not
C7_Witness ==
  /\ pc = "Save"
  /\ profile_start_tstamp = 1
  /\ \E k \in DOMAIN offcpu_regions :
       /\ Len(offcpu_regions[k]) = 2
       /\ offcpu_regions[k][1] = <<0, 1>>
       /\ offcpu_regions[k][2] = <<Modulus - 2, 2>>
  /\ \E k \in DOMAIN offcpu_regions :
       offcpu_regions[k] = <<<<Modulus - 1, 1>>>>

(***************************************************************************)
(* Properties of a whole session.                                          *)
(***************************************************************************)
Types(frames) == [i \in 1..Len(frames) |-> frames[i].t]

Sent(t) == \E i \in 1..Len(sent) : sent[i].t = t

IsPrefixOf(a, b) == Len(a) <= Len(b) /\ SubSeq(b, 1, Len(a)) = a

\* the subclients that have gone through this->accepted++
Signalled == {i \in Subclients : sub[i] \in {"unlocked", "running", "done", "failed"}}

\* C1: start_profile is written to the control connection only when the
\* accepted counter has reached N, that is after each of the N subclients
\* has signalled its readiness through notify().
C1_StartProfileAfterBarrier ==
  (pc = "StartProfile" \/ Sent("start_profile")) =>
    /\ accepted >= subclient_cnt
    /\ \A i \in 1..subclient_cnt : i \in Signalled

\* start_profile written for a session of two subclients
C1_Witness ==
  /\ Sent("start_profile")
  /\ subclient_cnt = 2
  /\ accepted = 2

\* the states of the control protocol, by position of the control thread
PhaseOf(p) ==
  IF p \in {"AwaitStart", "CreateDirs"} THEN "AwaitStart"
  ELSE IF p \in {"AwaitFilename", "Spawn", "SendInstr", "Lock", "Check",
                 "Waiting", "Woken", "StartProfile"} THEN "AwaitStartProfile"
  ELSE IF p \in {"AwaitTimestamp", "TstampAck"} THEN "AwaitTimestamp"
  ELSE IF p \in {"Join", "Rebase", "Save", "Terminal"} THEN "Collecting"
  ELSE IF p \in {"FileInstr", "AwaitFiles", "Upload", "Reply"} THEN "AwaitFiles"
  ELSE IF p \in {"Finish", "Done"} THEN "Done"
  ELSE "Failed"

PhaseOrder ==
  <<"AwaitStart", "AwaitStartProfile", "AwaitTimestamp", "Collecting",
    "AwaitFiles", "Done">>

PhaseRank(p) == CHOOSE i \in 1..Len(PhaseOrder) : PhaseOrder[i] = PhaseOf(p)

HeadFrames == <<"instr", "start_profile", "tstamp_ack">>

UploadReplies ==
  {"out_file_ok", "error_out_file", "error_out_file_timeout",
   "error_wrong_file_format"}

\* the frame sequences that end a run with an error frame
ErrorEndings ==
  {<<"error_wrong_command">>, <<"error_result_dir">>,
   <<"instr", "start_profile", "error_tstamp">>}

\* the frames of a run without upload phase, and of a run with one
PlainRun(ts) == IsPrefixOf(ts, HeadFrames \o <<"profiling_finished", "finished">>)

UploadRun(ts) ==
  /\ Len(ts) > 3
  /\ SubSeq(ts, 1, 4) = HeadFrames \o <<"out_files">>
  /\ Len(ts) > 4 => ts[5] = "file_instr"
  /\ \A i \in 6..Len(ts) :
       ts[i] \in UploadReplies \/ (i = Len(ts) /\ ts[i] = "finished")

\* the frames written so far agree with the state the control thread is in
FramesFollowPhases ==
  LET ts == Types(sent)
      ph == PhaseOf(pc)
  IN /\ PlainRun(ts) \/ UploadRun(ts) \/ ts \in ErrorEndings
     /\ ts \in ErrorEndings <=> pc = "Returned"
     /\ ph = "AwaitStart" => ts = <<>>
     /\ ph = "AwaitStartProfile" => ts \in {<<>>, <<"instr">>}
     /\ ph = "AwaitTimestamp" => ts = SubSeq(HeadFrames, 1, 2)
     /\ ph = "Collecting" => ts = HeadFrames
     /\ ph = "AwaitFiles" => UploadRun(ts) /\ ts[Len(ts)] # "finished"
     /\ pc = "Finish" => ts[Len(ts)] # "finished" /\ Len(ts) > 3
     /\ pc = "Done" => ts[Len(ts)] = "finished"

\* a step keeps the state, moves to the next one, goes from Collecting to
\* Done when there is no upload phase, or ends the run
PhaseStep ==
  \/ PhaseOf(pc') = "Failed"
  \/ PhaseOf(pc) # "Failed" /\ PhaseRank(pc') \in {PhaseRank(pc), PhaseRank(pc) + 1}
  \/ pc = "Terminal" /\ pc' = "Finish" /\ ~has_acceptor

SpacedForm(m) ==
  \E n \in 1..MaxSubclients, d \in DirStrings \ {<<>>} :
    m = START \o <<SP>> \o DecString(n) \o <<SP>> \o d

\* the frame with the count right after the word start
JoinedForm(m, n, d) ==
  /\ d # <<>>
  /\ \A i \in 1..Len(d) : d[i] \notin {NL, CR}
  /\ m = START \o DecString(n) \o <<SP>> \o d

BeforeSpawnEnd == {"AwaitStart", "CreateDirs", "AwaitFilename", "Spawn"}

\* what accepting a start frame with count n and directory d amounts to
AcceptedAs(n, d) ==
  /\ ~Sent("error_wrong_command")
  /\ subclient_cnt = n
  /\ result_dir = d
  /\ pc = "Returned" => Types(sent) \in ErrorEndings \ {<<"error_wrong_command">>}
  /\ PhaseOf(pc) \notin {"AwaitStart", "Failed"} =>
       {ProcessedPath(d), OutPath(d)} \subseteq dirs
  /\ pc \notin BeforeSpawnEnd /\ PhaseOf(pc) # "Failed" =>
       spawned = n /\ \A i \in 1..n : sub[i] # "none"

C4_ExactlyNSubclients ==
  /\ spawned <= subclient_cnt
  /\ data_conns <= subclient_cnt
  /\ joined <= subclient_cnt
  /\ Cardinality({i \in Subclients : sub[i] # "none"}) = spawned
  /\ \A i \in 1..Len(sent) :
       sent[i].t = "instr" => sent[i].n = subclient_cnt /\ spawned = subclient_cnt
  /\ Sent("start_profile") => data_conns = subclient_cnt
  /\ Merged => joined = subclient_cnt

\* a finished session of two subclients
C4_Witness ==
  /\ pc = "Done"
  /\ subclient_cnt = 2
  /\ spawned = 2
  /\ data_conns = 2
  /\ joined = 2

\* C10: every file opened for writing lies directly inside processed/ or
\* out/ of the result directory; an upload name with a slash or a
\* parent-directory component is rejected and nothing is written for it.
C10_UploadsConfined ==
  \A f \in files :
    /\ Len(f) > 1
    /\ SubSeq(f, 1, Len(f) - 1) \in {ProcessedPath(result_dir), OutPath(result_dir)}

(***************************************************************************)
(* The line reader of a connection: TCPSocket::read(timeout) and           *)
(* FileDescriptor::read(timeout), which run the same loop.  rd holds the   *)
(* members buf (its first start_pos bytes), start_pos, buf_size and        *)
(* buffered_msgs, the local cur_msg of the call in progress, the bytes the *)
(* peer has still to deliver (stream) and the results returned so far.     *)
(***************************************************************************)
\* the pieces std::getline cuts a view into; the last one is the piece
\* read when the stream reports eof
RECURSIVE Pieces(_, _)
Pieces(view, cur) ==
  IF view = <<>> THEN <<cur>>
  ELSE IF view[1] = NL THEN <<cur>> \o Pieces(Drop(view, 1), <<>>)
  ELSE Pieces(Drop(view, 1), Append(cur, view[1]))

\* the readable part of a charstreambuf over length bytes:
\* setg(begin, begin, begin + length - 1)
StreamView(data, length) == SubSeq(data, 1, length - 1)

\* cur_msg += std::string(this->buf.get(), this->buf_size)
Accumulate(cur_msg, bytes) == cur_msg \o bytes

\* a test that lets every piece through
DeliverableAlways(cur_msg, piece) == TRUE

\* !cur_msg.empty() || !msg.empty()
Deliverable(cur_msg, piece) == cur_msg # <<>> \/ piece # <<>>

\* a message put in front of the queued ones
EnqueueFront(q, m) == <<m>> \o q

\* this->buffered_msgs.push(m)
Enqueue(q, m) == Append(q, m)

\* the while (!in.eof()) loop over the pieces; st holds cur_msg, first (the
\* first message, if found), queue (buffered_msgs), cur_pos, start_pos and
\* buf
RECURSIVE Scan(_, _, _, _, _)
Scan(pieces, data, buf_size, last_is_newline, st) ==
  IF pieces = <<>> THEN st
  ELSE
    LET piece == pieces[1]
        at_eof == Len(pieces) = 1
        size == Len(data) - st.cur_pos
        st2 ==
          IF at_eof /\ ~last_is_newline
            THEN IF size = buf_size
                   THEN [st EXCEPT !.cur_msg = Accumulate(@, SubSeq(data, 1, buf_size)),
                                   !.start_pos = 0,
                                   !.buf = <<>>]
                   ELSE [st EXCEPT !.buf = SubSeq(data, st.cur_pos + 1,
                                                  st.cur_pos + size),
                                   !.start_pos = size]
            ELSE
              LET st1 ==
                    IF Deliverable(st.cur_msg, piece)
                      THEN IF st.first = <<>>
                             THEN [st EXCEPT !.first = <<st.cur_msg \o piece>>,
                                             !.cur_msg = <<>>]
                             ELSE [st EXCEPT !.queue = Enqueue(@, st.cur_msg \o piece),
                                             !.cur_msg = <<>>]
                      ELSE st
              IN [st1 EXCEPT !.cur_pos = @ + Len(piece) + 1]
    IN Scan(Drop(pieces, 1), data, buf_size, last_is_newline, st2)

\* one turn of the while (true) loop after a receive of chunk, which is not
\* empty
Turn(r, chunk) ==
  LET data == r.buf \o chunk
      total == Len(chunk) + r.start_pos
      last_is_newline == data[total] = NL
      st == Scan(Pieces(StreamView(data, total), <<>>), data, r.buf_size,
                 last_is_newline,
                 [cur_msg |-> r.cur_msg, first |-> <<>>,
                  queue |-> r.buffered_msgs, cur_pos |-> 0,
                  start_pos |-> r.start_pos, buf |-> r.buf])
      pos == IF last_is_newline THEN 0 ELSE st.start_pos
  IN [r EXCEPT !.stream = Drop(@, Len(chunk)),
               !.last_index = total - 1,
               !.buf = IF pos = 0 THEN <<>> ELSE st.buf,
               !.start_pos = pos,
               !.buffered_msgs = st.queue,
               !.cur_msg = st.cur_msg,
               !.returned = IF st.first = <<>> THEN @ ELSE Append(@, st.first[1]),
               !.pc = IF st.first = <<>> THEN "receive" ELSE "idle"]

\* read() is called: a queued message is returned at once, otherwise the
\* loop is entered with an empty cur_msg
ReadCall ==
  /\ rd.pc = "idle"
  /\ ~rd.eof
  /\ rd' = IF rd.buffered_msgs # <<>>
             THEN [rd EXCEPT !.returned = Append(@, Head(rd.buffered_msgs)),
                             !.buffered_msgs = Tail(@)]
             ELSE [rd EXCEPT !.cur_msg = <<>>, !.pc = "receive"]
  /\ UNCHANGED <<procVars, mergeVars, wr, sideVars>>

\* a receive of at most buf_size - start_pos bytes: n bytes of the stream,
\* or 0 bytes once the peer has closed it, which ends the call with the
\* first start_pos bytes of buf
Receive(n) ==
  /\ rd.pc = "receive"
  /\ IF rd.stream = <<>>
       THEN /\ n = 0
            /\ rd' = [rd EXCEPT !.returned = Append(@, SubSeq(rd.buf, 1, rd.start_pos)),
                                !.eof = TRUE,
                                !.pc = "idle"]
       ELSE /\ n \in 1..Len(rd.stream)
            /\ n <= rd.buf_size - rd.start_pos
            /\ rd' = Turn(rd, SubSeq(rd.stream, 1, n))
  /\ UNCHANGED <<procVars, mergeVars, wr, sideVars>>

\* the ways a receive can fail: an exception of the socket or of poll, a
\* timeout, and the return of -1 by the read system call
ReceiveErrors == {"ConnectionException", "TimeoutException", "minus_one"}

\* a receive that fails.  An exception leaves read() with the members as
\* they are.  The -1 of ::read is tested only on the path without timeout;
\* FileDescriptor::read(buf, len, timeout_seconds) hands it on, and the
\* loop then takes bytes_received + start_pos - 1 as the index of the last
\* byte, which lies before the buffer: what follows is undefined.
ReceiveError(error, timed_fd) ==
  /\ rd.pc = "receive"
  /\ error \in ReceiveErrors
  /\ rd' = IF error = "minus_one" /\ timed_fd
             THEN [rd EXCEPT !.pc = "undefined",
                             !.last_index = rd.start_pos - 2]
             ELSE [rd EXCEPT !.pc = "thrown"]
  /\ UNCHANGED <<procVars, mergeVars, wr, sideVars>>

\* the bytes of a stream
Bytes == {"a", "b", NL}

RECURSIVE Strings(_, _)
Strings(alphabet, n) ==
  IF n = 0 THEN {<<>>}
  ELSE LET shorter == Strings(alphabet, n - 1)
       IN shorter \cup {Append(x, c) : x \in shorter, c \in alphabet}

\* a session at rest, for the specifications of the transports
IdleClient ==
  /\ ClientInit
  /\ has_acceptor = FALSE

\* a connection after its constructor, with the bytes its peer will send
InitRead ==
  /\ IdleClient
  /\ wr = NoWriter
  /\ SideOff
  /\ \E size \in 1..MaxBuf, input \in Strings(Bytes, MaxStream) :
       rd = [pc |-> "idle", buf_size |-> size, buf |-> <<>>, start_pos |-> 0,
             buffered_msgs |-> <<>>, cur_msg |-> <<>>, stream |-> input,
             input |-> input, returned |-> <<>>, eof |-> FALSE,
             last_index |-> 0]

NextRead ==
  \/ ReadCall
  \/ \E n \in 0..MaxBuf : Receive(n)
  \/ \E error \in ReceiveErrors, timed_fd \in BOOLEAN : ReceiveError(error, timed_fd)

SpecRead == InitRead /\ [][NextRead]_vars

\* the frames returned before the end of the stream, each followed by a
\* newline, then the frame returned at the end of the stream
RECURSIVE Rejoin(_)
Rejoin(frames) ==
  IF Len(frames) <= 1 THEN (IF frames = <<>> THEN <<>> ELSE frames[1])
  ELSE frames[1] \o <<NL>> \o Rejoin(Tail(frames))

\* a stream with an empty frame: a newline at its start or after a newline
HasEmptyFrame(bytes) ==
  \E i \in 1..Len(bytes) : bytes[i] = NL /\ (i = 1 \/ bytes[i - 1] = NL)

\* C8: the results of the read() calls up to the end of the stream, joined
\* with a newline after each frame but the last, are the byte stream that
\* was sent, for every split into receives and every buf_size.  Stated for
\* the streams without empty frame; with an empty frame the results differ
\* from the stream as well, since read() never returns an empty frame
\* before the end of the stream.
C8_ReadLineRoundTrip ==
  (rd.pc # "off" /\ rd.eof /\ ~HasEmptyFrame(rd.input)) =>
    Rejoin(rd.returned) = rd.input

(***************************************************************************)
(* Writing a message: TCPSocket::write(msg, new_line) and                  *)
(* FileDescriptor::write(msg, new_line).  wr holds the connection's kind   *)
(* and the last call: its arguments, what the send returned (sendBytes or  *)
(* the write system call) and how the call ended.                          *)
(***************************************************************************)
SizeModulus == 2 ^ SizeBits

\* an int converted to size_t for the comparison with msg.size()
ToSize(n) == (n + SizeModulus) % SizeModulus

\* a check that lets a short write pass
WriteCompleteLax(bytes_written, size) == bytes_written >= 0

\* the negation of bytes_written != msg.size()
WriteComplete(bytes_written, size) == ToSize(bytes_written) = size

\* the bytes handed to the send
Payload(s, new_line) == IF new_line THEN Append(s, NL) ELSE s

\* what a send of size bytes can do: return -1, return a count of bytes up
\* to size, or, on a TCP socket, throw a NetException
SendOutcomes(kind, size) ==
  [type : {"count"}, n : -1..size]
    \cup (IF kind = "tcp" THEN {[type |-> "NetException", n |-> 0]} ELSE {})

\* write(s, new_line) on the connection
WriteLine(s, new_line, outcome) ==
  /\ wr.pc \in {"idle", "returned"}
  /\ outcome \in SendOutcomes(wr.kind, Len(Payload(s, new_line)))
  /\ LET size == Len(Payload(s, new_line))
         ok == outcome.type = "count" /\ WriteComplete(outcome.n, size)
     IN wr' = [pc |-> IF ok THEN "returned" ELSE "threw",
               kind |-> wr.kind,
               msg |-> s,
               new_line |-> new_line,
               send |-> outcome,
               exception |-> IF ok THEN "none" ELSE "ConnectionException"]
  /\ UNCHANGED <<procVars, mergeVars, rd, sideVars>>

\* the messages written
Messages == Strings({"a", "b"}, MaxMsg)

\* a connection of either kind on which nothing has been written
InitWrite ==
  /\ IdleClient
  /\ rd = NoReader
  /\ SideOff
  /\ \E kind \in {"tcp", "fd"} :
       wr = [pc |-> "idle", kind |-> kind, msg |-> <<>>, new_line |-> FALSE,
             send |-> [type |-> "none", n |-> 0], exception |-> "none"]

NextWrite ==
  \E s \in Messages, new_line \in BOOLEAN :
    \E outcome \in SendOutcomes(wr.kind, Len(s) + 1) :
      WriteLine(s, new_line, outcome)

SpecWrite == InitWrite /\ [][NextWrite]_vars

\* C9: a write of s with a trailing newline either returns after a send
\* that reported Len(s) + 1 bytes, or raises ConnectionException; a short
\* write never returns normally.
C9_WriteLineAllOrException ==
  (wr.pc \in {"returned", "threw"} /\ wr.new_line) =>
    /\ wr.pc = "returned" =>
         (wr.send.type = "count" /\ wr.send.n = Len(wr.msg) + 1)
    /\ wr.pc = "threw" => wr.exception = "ConnectionException"
    /\ (wr.send.type = "count" /\ wr.send.n # Len(wr.msg) + 1) => wr.pc = "threw"

\* a send that stopped one byte short, before the newline, ended in the
\* exception
C9_Witness ==
  /\ wr.pc = "threw"
  /\ wr.new_line
  /\ wr.msg # <<>>
  /\ wr.send.type = "count"
  /\ wr.send.n = Len(wr.msg)
  /\ wr.exception = "ConnectionException"

(***************************************************************************)
(* Error frames, the end of a session and the upload loop.                 *)
(***************************************************************************)
LastSent == sent[Len(sent)].t

\* the error frames after which process() returns
SessionErrors == {"error_wrong_command", "error_result_dir", "error_tstamp"}

\* the error frames of the upload loop
UploadErrors == ErrorFrames \ SessionErrors

\* the frames of a set are each the last frame written, in an ended session
AreLast(frames) ==
  \A i \in 1..Len(sent) :
    sent[i].t \in frames => (i = Len(sent) /\ pc = "Returned")

C12_OneTerminalFrame ==
  pc = "Done" =>
    IF has_acceptor
      THEN Sent("finished") /\ ~Sent("profiling_finished")
      ELSE Sent("profiling_finished") /\ ~Sent("finished")

\* a line that is shorter than 3 characters, or does not start with o or p,
\* or has no space as its second character
Malformed(x) ==
  IF Len(x) < 3 THEN TRUE
  ELSE x[1] \notin {"o", "p"} \/ x[2] # SP

\* C13: a malformed upload line is answered with error_wrong_file_format,
\* no file connection is accepted and no file is created for it, the loop
\* goes back to reading, a later stop line leads to the finished frame, and
\* a session that is done has written finished last.
C13_MalformedLineAnswered ==
  /\ [][\A x \in UploadLines \ {STOP} :
          (Malformed(x) /\ ReadUploadLine(x)) =>
            /\ sent' = Append(sent, Frame("error_wrong_file_format"))
            /\ file_conns' = file_conns
            /\ files' = files
            /\ upload' = NoUpload
            /\ pc' = "AwaitFiles"]_vars
  /\ [][ReadUploadLine(STOP) => pc' = "Finish"]_vars
  /\ [](pc = "Done" => LastSent = "finished")

\* a session that answered a malformed line and then ended with finished,
\* without any file connection
C13_Witness ==
  /\ pc = "Done"
  /\ file_conns = 0
  /\ Len(sent) > 1
  /\ sent[Len(sent) - 1].t = "error_wrong_file_format"
  /\ LastSent = "finished"

\* C14: a timeout of a read on the file connection is answered with
\* error_out_file_timeout and the upload loop goes back to reading upload
\* lines; the session is left at that point only when the write of the
\* reply fails.
C14_TimeoutKeepsSession ==
  /\ [][ServeUpload("timeout") =>
          (upload'.reply = "error_out_file_timeout" /\ pc' = "Reply")]_vars
  /\ [][(pc = "Reply" /\ upload.reply = "error_out_file_timeout" /\ pc' # pc) =>
          \/ pc' = "Thrown"
          \/ /\ pc' = "AwaitFiles"
             /\ sent' = Append(sent, Frame("error_out_file_timeout"))]_vars

\* a session in which a file timed out, a later file was received and the
\* stop line was answered with finished
C14_Witness ==
  /\ pc = "Done"
  /\ LastSent = "finished"
  /\ \E i, j \in 1..Len(sent) :
       /\ i < j
       /\ sent[i].t = "error_out_file_timeout"
       /\ sent[j].t = "out_file_ok"

\* C15: when a subclient has failed and the session has failed for it, and
\* every subclient has ended, the result of every subclient that succeeded
\* has been collected.
C15_AllJoinedBeforeFailure ==
  ( /\ pc = "Thrown"
    /\ Len(sent) > 0
    /\ LastSent = "tstamp_ack"
    /\ \A i \in 1..subclient_cnt : sub[i] \in {"done", "failed"} )
  => \A i \in 1..subclient_cnt : sub[i] = "done" => i <= joined

\* the positions of process() after the save futures have been joined
SavedPositions ==
  {"Terminal", "FileInstr", "AwaitFiles", "Upload", "Reply", "Finish", "Done"}

\* C16: after the merge and a save in which every stream could be opened,
\* processed/ holds metadata.json and one file named after each pid_tid key
\* found under a sample key of the results.
C16_OneFilePerThread ==
  (pc \in SavedPositions /\ SaveTargets \subseteq files) =>
    /\ Append(ProcessedPath(result_dir), METADATA_JSON) \in files
    /\ \A k \in SampledKeys :
         Append(ProcessedPath(result_dir), k \o DOT_JSON) \in files

(***************************************************************************)
(* PipeAcceptor::accept_connection.  pipe_acceptor holds the bytes the     *)
(* peer writes before it closes its end (input, and stream for those not   *)
(* yet read), the local array buf, which is not initialised, the counter   *)
(* bytes_received and whether a timeout was given.                         *)
(***************************************************************************)
Off == [pc |-> "off"]

\* std::string expected
expected == <<"c", "o", "n", "n", "e", "c", "t">>

\* const int size
size == Len(expected)

\* what the peer may write: a part of the token, the token, the token with
\* one more byte, the token with one byte changed
Handshakes ==
  {SubSeq(expected, 1, n) : n \in 0..size}
    \cup {Append(expected, "x")}
    \cup {[expected EXCEPT ![i] = "x"] : i \in {1, 4, size}}

\* the bytes found in char buf[size] before anything is read into it: they
\* are indeterminate, and may be what an earlier call left there
Indeterminate == {[i \in 1..size |-> "?"], expected}

\* buf after count bytes have been read to buf + bytes_received
Stored(buf, bytes_received, bytes) ==
  [i \in 1..size |->
     IF i > bytes_received /\ i <= bytes_received + Len(bytes)
       THEN bytes[i - bytes_received]
       ELSE buf[i]]

\* msg != expected, msg being std::string(buf, size)
HandshakeWrong(m) == m # expected

\* one turn of while (bytes_received < size): the poll when a timeout was
\* given, with its return code, then the read, with its return value
PipeTurn(code, received) ==
  /\ pipe_acceptor.pc = "loop"
  /\ IF pipe_acceptor.timed THEN code \in {-1, 0, 1} ELSE code = 1
  /\ code = 0 => pipe_acceptor.stream # <<>>
  /\ IF code = -1
       THEN /\ received = 0
            /\ pipe_acceptor' = [pipe_acceptor EXCEPT !.pc = "ConnectionException"]
     ELSE IF code = 0
       THEN /\ received = 0
            /\ pipe_acceptor' = [pipe_acceptor EXCEPT !.pc = "TimeoutException"]
     ELSE /\ received \in -1..(size - pipe_acceptor.bytes_received)
          /\ received <= Len(pipe_acceptor.stream)
          /\ received = 0 <=> pipe_acceptor.stream = <<>>
          /\ IF received <= 0
               THEN pipe_acceptor' = [pipe_acceptor EXCEPT !.pc = "compare"]
               ELSE pipe_acceptor' =
                      [pipe_acceptor EXCEPT
                         !.buf = Stored(@, pipe_acceptor.bytes_received,
                                        SubSeq(pipe_acceptor.stream, 1, received)),
                         !.stream = Drop(@, received),
                         !.bytes_received = @ + received,
                         !.pc = IF pipe_acceptor.bytes_received + received < size
                                  THEN "loop" ELSE "compare"]
  /\ UNCHANGED <<procVars, tstamp_get, xfer, mergeVars, rd, wr, tcp_acceptor, entrypoint,
                 option>>

\* the comparison of std::string(buf, size) with expected, then the
\* exception or the FileDescriptor
PipeCompare ==
  /\ pipe_acceptor.pc = "compare"
  /\ pipe_acceptor' =
       [pipe_acceptor EXCEPT
          !.pc = IF HandshakeWrong(pipe_acceptor.buf)
                   THEN "ConnectionException" ELSE "accepted"]
  /\ UNCHANGED <<procVars, tstamp_get, xfer, mergeVars, rd, wr, tcp_acceptor, entrypoint,
                 option>>

InitPipe ==
  /\ IdleClient
  /\ tstamp_get = NoGets
  /\ xfer = NoTransfer
  /\ rd = NoReader
  /\ wr = NoWriter
  /\ tcp_acceptor = Off
  /\ entrypoint = Off
  /\ option = Off
  /\ \E input \in Handshakes, timed \in BOOLEAN, stack \in Indeterminate :
       pipe_acceptor = [pc |-> "loop", timed |-> timed, input |-> input,
                        stream |-> input, buf |-> stack, bytes_received |-> 0]

NextPipe ==
  \/ \E code \in {-1, 0, 1}, received \in -1..size : PipeTurn(code, received)
  \/ PipeCompare

SpecPipe == InitPipe /\ [][NextPipe]_vars

\* C17: accept_connection returns a connection only when the bytes the peer
\* wrote are exactly the token; for every other byte sequence, a shorter
\* one followed by the end of the stream and one that continues past the
\* token included, the call ends in ConnectionException.
C17_OnlyExactHandshake ==
  /\ pipe_acceptor.pc = "accepted" => pipe_acceptor.input = expected
  /\ (pipe_acceptor.pc \in {"accepted", "ConnectionException"}
        /\ pipe_acceptor.input # expected)
       => pipe_acceptor.pc = "ConnectionException"

(***************************************************************************)
(* TCPAcceptor::TCPAcceptor and get_connection_instructions.  tcp_acceptor *)
(* holds the arguments port (requested, and port as the loop changes it)   *)
(* and try_subsequent_ports, the ports other sockets hold (busy), the port *)
(* the acceptor is bound to, every bind tried with its outcome, and the    *)
(* port reported by get_connection_instructions.                           *)
(***************************************************************************)
PortModulus == 2 ^ PortBits

Ports == 0..(PortModulus - 1)

NoPort == -1

\* a port++ that is missing
NextPortSame(port) == port

\* port++ on an unsigned short
NextPort(port) == (port + 1) % PortModulus

\* e.message().find("already in use") != std::string::npos
SaysInUse(outcome) == outcome = "in_use"

\* the ports a bind of port can leave the acceptor bound to: the port
\* itself when it is free, any free port for port 0
Bindable(port, busy) ==
  IF port = 0 THEN (Ports \ {0}) \ busy
  ELSE {port} \ busy

\* acceptor.bind(net::SocketAddress(address, port), false) and the catch
\* clause of either mode; got is the port bound when the bind succeeds
Bind(outcome, got) ==
  /\ tcp_acceptor.pc = "bind"
  /\ Len(tcp_acceptor.attempts) < MaxAttempts
  /\ outcome \in {"ok", "in_use", "other"}
  /\ outcome = "ok" => got \in Bindable(tcp_acceptor.port, tcp_acceptor.busy)
  /\ outcome # "ok" => got = NoPort
  /\ outcome = "in_use" => Bindable(tcp_acceptor.port, tcp_acceptor.busy) = {}
  /\ LET tried == Append(tcp_acceptor.attempts,
                         [port |-> tcp_acceptor.port, outcome |-> outcome])
     IN tcp_acceptor' =
          IF outcome = "ok"
            THEN [tcp_acceptor EXCEPT !.attempts = tried, !.bound = got,
                                      !.pc = "listen"]
          ELSE IF ~SaysInUse(outcome)
            THEN [tcp_acceptor EXCEPT !.attempts = tried,
                                      !.pc = "ConnectionException"]
          ELSE IF tcp_acceptor.try_subsequent_ports
            THEN [tcp_acceptor EXCEPT !.attempts = tried,
                                      !.port = NextPort(@)]
          ELSE [tcp_acceptor EXCEPT !.attempts = tried,
                                    !.pc = "AlreadyInUseException"]
  /\ UNCHANGED <<procVars, tstamp_get, xfer, mergeVars, rd, wr, pipe_acceptor, entrypoint,
                 option>>

\* acceptor.listen(); a NetException ends the constructor, and the member
\* acceptor is destroyed with the object
Listen(ok) ==
  /\ tcp_acceptor.pc = "listen"
  /\ tcp_acceptor' =
       IF ok THEN [tcp_acceptor EXCEPT !.pc = "listening"]
       ELSE [tcp_acceptor EXCEPT !.pc = "ConnectionException", !.bound = NoPort]
  /\ UNCHANGED <<procVars, tstamp_get, xfer, mergeVars, rd, wr, pipe_acceptor, entrypoint,
                 option>>

\* get_connection_instructions(): the port of acceptor.address()
GetConnectionInstructions ==
  /\ tcp_acceptor.pc = "listening"
  /\ tcp_acceptor.instructions = NoPort
  /\ tcp_acceptor' = [tcp_acceptor EXCEPT !.instructions = tcp_acceptor.bound]
  /\ UNCHANGED <<procVars, tstamp_get, xfer, mergeVars, rd, wr, pipe_acceptor, entrypoint,
                 option>>

InitTcp ==
  /\ IdleClient
  /\ tstamp_get = NoGets
  /\ xfer = NoTransfer
  /\ rd = NoReader
  /\ wr = NoWriter
  /\ pipe_acceptor = Off
  /\ entrypoint = Off
  /\ option = Off
  /\ \E port \in Ports, busy \in SUBSET (Ports \ {0}), try \in BOOLEAN :
       tcp_acceptor = [pc |-> "bind", requested |-> port, port |-> port,
                       try_subsequent_ports |-> try, busy |-> busy,
                       bound |-> NoPort, attempts |-> <<>>,
                       instructions |-> NoPort]

NextTcp ==
  \/ \E outcome \in {"ok", "in_use", "other"}, got \in Ports \cup {NoPort} :
       Bind(outcome, got)
  \/ \E ok \in BOOLEAN : Listen(ok)
  \/ GetConnectionInstructions

SpecTcp == InitTcp /\ [][NextTcp]_vars

\* C18: without try_subsequent_ports one bind is tried, and a port in use
\* ends the constructor in AlreadyInUseException with nothing bound; with
\* it each bind after an in-use failure is tried on the port before plus
\* one, until a bind succeeds; any other bind error ends the constructor
\* in ConnectionException; get_connection_instructions reports the port
\* the acceptor is bound to, which no other socket holds.
C18_BindPolicy ==
  LET a == tcp_acceptor.attempts
      n == Len(a)
  IN tcp_acceptor.pc # "off" =>
       /\ n >= 1 => a[1].port = tcp_acceptor.requested
       /\ \A k \in 1..(n - 1) :
            /\ tcp_acceptor.try_subsequent_ports
            /\ a[k].outcome = "in_use"
            /\ a[k + 1].port = (a[k].port + 1) % PortModulus
       /\ (n >= 1 /\ a[n].outcome = "in_use") =>
            /\ tcp_acceptor.bound = NoPort
            /\ tcp_acceptor.pc =
                 IF tcp_acceptor.try_subsequent_ports THEN "bind"
                 ELSE "AlreadyInUseException"
       /\ (n >= 1 /\ a[n].outcome = "other") =>
            /\ tcp_acceptor.bound = NoPort
            /\ tcp_acceptor.pc = "ConnectionException"
       /\ tcp_acceptor.pc \in {"listen", "listening"} =>
            /\ a[n].outcome = "ok"
            /\ tcp_acceptor.bound \notin tcp_acceptor.busy
            /\ a[n].port # 0 => tcp_acceptor.bound = a[n].port
       /\ tcp_acceptor.instructions # NoPort =>
            tcp_acceptor.instructions = tcp_acceptor.bound

\* two ports in use were passed over, the third was bound and reported
C18_Witness ==
  /\ tcp_acceptor.pc = "listening"
  /\ tcp_acceptor.try_subsequent_ports
  /\ Len(tcp_acceptor.attempts) = 3
  /\ tcp_acceptor.requested = 1
  /\ tcp_acceptor.instructions = 3

(***************************************************************************)
(* main_entrypoint.  entrypoint holds what the command line gave           *)
(* (print_version, codes_dst, address, whether a command was given), the   *)
(* position in the function, what exists so far (configuration read,       *)
(* temporary directory, acceptors, children), the outcome of the session,  *)
(* to_return and the value returned.                                       *)
(***************************************************************************)
NoCode == -1

PERF_PATH == <<"p", "e", "r", "f", "_", "p", "a", "t", "h">>

\* the values CLI11_PARSE returns when the parse does not succeed: 0 after
\* the help text, the code of the parse error otherwise
ParseExits == {0, 105}

\* the values of --codes: none, srv, a file
CodesValues == {<<>>, <<"s", "r", "v">>, <<"f", "i", "l", "e", ":", "x">>}

\* the values of -a: none, an address and a port
AddressValues == {<<>>, <<"h", ":", "1">>}

\* the return codes of start_profiling_session
SessionCodes == {0, 1, 2, 7}

NoSession == [kind |-> "none", code |-> NoCode]

\* how start_profiling_session can end
SessionOutcomes ==
  [kind : {"code"}, code : SessionCodes]
    \cup {[kind |-> "ConnectionException", code |-> NoCode],
          [kind |-> "exception", code |-> NoCode]}

\* a test of --codes against -a that never fires
CodesConflictNever(codes_dst, address) == FALSE

\* codes_dst == "srv" && address == ""
CodesConflict(codes_dst, address) ==
  codes_dst = <<"s", "r", "v">> /\ address = <<>>

\* to_return left at its initial value by the catch clauses
ToReturnUncaught(session, removed) ==
  IF session.kind = "code" THEN session.code ELSE 0

\* to_return after the try block: the code of the session, or 2 from either
\* catch clause, which fs::remove_all reaches too when it throws
ToReturn(session, removed) ==
  IF session.kind = "code" /\ (session.code # 0 \/ removed)
    THEN session.code
    ELSE 2

\* a test of the code that lets every session remove the directory
RemovesTmpDirAlways(code) == TRUE

\* if (code == 0) before fs::remove_all(tmp_dir)
RemovesTmpDir(code) == code = 0

\* return from main_entrypoint
Return(value) == [entrypoint EXCEPT !.pc = "returned", !.ret = value]

\* CLI11_PARSE(app, argc, argv)
Parse(exit) ==
  /\ entrypoint.pc = "parse"
  /\ entrypoint' = IF exit = NoCode
                     THEN [entrypoint EXCEPT !.pc = "check", !.parsed = TRUE]
                     ELSE Return(exit)
  /\ UNCHANGED <<procVars, tstamp_get, xfer, mergeVars, rd, wr, pipe_acceptor, tcp_acceptor,
                 option>>

\* the tests of print_version, of codes_dst with address and of
\* command_parts
CheckArgs ==
  /\ entrypoint.pc = "check"
  /\ entrypoint' =
       IF entrypoint.print_version THEN Return(0)
       ELSE IF CodesConflict(entrypoint.codes_dst, entrypoint.address)
         THEN Return(3)
       ELSE IF ~entrypoint.command THEN Return(3)
       ELSE [entrypoint EXCEPT !.pc = "config"]
  /\ UNCHANGED <<procVars, tstamp_get, xfer, mergeVars, rd, wr, pipe_acceptor, tcp_acceptor,
                 option>>

\* the lines a configuration file is made of: an empty line, a comment,
\* three lines with a key and a value, a line with no equals sign and a
\* line with no value
ConfigLines ==
  { <<>>,
    <<"#", "c">>,
    PERF_PATH \o <<"=", "/", "p">>,
    <<"k", SP, "=", SP, "v">>,
    <<"b", "a", "d">>,
    <<"k", "=">> }

\* a configuration file: one that cannot be opened, or its lines
ConfigFiles ==
  {[exists |-> FALSE, lines |-> <<>>]}
    \cup {[exists |-> TRUE, lines |-> l] : l \in Strings(ConfigLines, MaxConfigLines)}

\* \s of the regular expression, for the bytes of ConfigLines
IsSpace(c) == c \in {SP, "\t"}

\* the line up to i is the key, blanks follow up to the equals sign at j,
\* and at least one byte follows it
KeyEnds(line, i, j) ==
  /\ 1 <= i /\ i < j /\ j < Len(line)
  /\ \A x \in 1..i : ~IsSpace(line[x])
  /\ \A x \in (i + 1)..(j - 1) : IsSpace(line[x])
  /\ line[j] = "="
  /\ \A x \in (j + 1)..Len(line) : IsDot(line[x])

\* std::regex_match(line, match, std::regex("^(\\S+)\\s*\\=\\s*(.+)$"))
ConfigLineMatches(line) ==
  \E i \in 1..Len(line), j \in 1..Len(line) : KeyEnds(line, i, j)

\* match[1]: the greedy \S+ keeps the longest key the rest allows
ConfigKey(line) ==
  LET i == CHOOSE a \in 1..Len(line) :
             /\ \E j \in 1..Len(line) : KeyEnds(line, a, j)
             /\ \A b \in (a + 1)..Len(line) :
                  \A j \in 1..Len(line) : ~KeyEnds(line, b, j)
  IN SubSeq(line, 1, i)

\* match[2]: what follows the equals sign and the blanks the greedy \s*
\* takes, which leaves one byte to the value
ConfigValue(line) ==
  LET i == Len(ConfigKey(line))
      j == CHOOSE b \in 1..Len(line) : KeyEnds(line, i, b)
      blanks == CHOOSE n \in 0..(Len(line) - j - 1) :
                  /\ \A x \in (j + 1)..(j + n) : IsSpace(line[x])
                  /\ n = Len(line) - j - 1 \/ ~IsSpace(line[j + n + 1])
  IN Drop(line, j + blanks)

\* the loop of read_config over the lines of an opened file
RECURSIVE ReadLines(_, _)
ReadLines(lines, config) ==
  IF lines = <<>> THEN [ok |-> TRUE, result |-> config]
  ELSE LET line == lines[1]
       IN IF line = <<>> \/ line[1] = "#"
            THEN ReadLines(Drop(lines, 1), config)
          ELSE IF ~ConfigLineMatches(line)
            THEN [ok |-> FALSE, result |-> config]
          ELSE ReadLines(Drop(lines, 1),
                         Put(config, ConfigKey(line), ConfigValue(line)))

\* the lambda read_config: a file that cannot be opened is ignored
read_config(config_path, config) ==
  IF ~config_path.exists THEN [ok |-> TRUE, result |-> config]
  ELSE ReadLines(config_path.lines, config)

\* read_config(system_config_path, config); a syntax error ends the
\* function with 2
ReadSystemConfig(system_config_path) ==
  /\ entrypoint.pc = "config"
  /\ LET read == read_config(system_config_path, entrypoint.config)
     IN entrypoint' =
          IF ~read.ok
            THEN [Return(2) EXCEPT !.config_read = TRUE, !.config_error = "syntax"]
          ELSE [entrypoint EXCEPT !.pc = "config_local", !.config_read = TRUE,
                                  !.config = read.result]
  /\ UNCHANGED <<procVars, tstamp_get, xfer, mergeVars, rd, wr, pipe_acceptor, tcp_acceptor,
                 option>>

\* read_config(local_config_path, config) and the test of perf_path
ReadLocalConfig(local_config_path) ==
  /\ entrypoint.pc = "config_local"
  /\ LET read == read_config(local_config_path, entrypoint.config)
     IN entrypoint' =
          IF ~read.ok
            THEN [Return(2) EXCEPT !.config_error = "syntax"]
          ELSE IF PERF_PATH \notin DOMAIN read.result
            THEN [Return(2) EXCEPT !.config = read.result,
                                   !.config_error = "perf_path"]
          ELSE [entrypoint EXCEPT !.pc = "perf", !.config = read.result]
  /\ UNCHANGED <<procVars, tstamp_get, xfer, mergeVars, rd, wr, pipe_acceptor, tcp_acceptor,
                 option>>

\* the tests of perf_bin_path and perf_python_path
CheckPerf(ok) ==
  /\ entrypoint.pc = "perf"
  /\ entrypoint' = IF ok THEN [entrypoint EXCEPT !.pc = "filter"]
                     ELSE [Return(2) EXCEPT !.env_error = "perf"]
  /\ UNCHANGED <<procVars, tstamp_get, xfer, mergeVars, rd, wr, pipe_acceptor, tcp_acceptor,
                 option>>

\* the filter option and the allow or deny list
ReadFilter(ok) ==
  /\ entrypoint.pc = "filter"
  /\ entrypoint' = IF ok THEN [entrypoint EXCEPT !.pc = "tmp"] ELSE Return(2)
  /\ UNCHANGED <<procVars, tstamp_get, xfer, mergeVars, rd, wr, pipe_acceptor, tcp_acceptor,
                 option>>

\* the try block around fs::create_directories(tmp_dir); a
\* filesystem_error is caught and the function goes on
MakeTmpDir(ok) ==
  /\ entrypoint.pc = "tmp"
  /\ entrypoint' = [entrypoint EXCEPT !.pc = "cpu",
                                      !.tmp_dir = IF ok THEN "created" ELSE "none"]
  /\ UNCHANGED <<procVars, tstamp_get, xfer, mergeVars, rd, wr, pipe_acceptor, tcp_acceptor,
                 option>>

\* get_cpu_config and cpu_config.is_valid()
CheckCpu(valid) ==
  /\ entrypoint.pc = "cpu"
  /\ entrypoint' = IF valid THEN [entrypoint EXCEPT !.pc = "build"] ELSE Return(1)
  /\ UNCHANGED <<procVars, tstamp_get, xfer, mergeVars, rd, wr, pipe_acceptor, tcp_acceptor,
                 option>>

\* the acceptors and profilers, the roofline benchmark and the extra
\* events; an exception here is not caught in main_entrypoint
Build(outcome) ==
  /\ entrypoint.pc = "build"
  /\ outcome \in {"ok", "roofline", "throws"}
  /\ entrypoint' =
       IF outcome = "ok"
         THEN [entrypoint EXCEPT !.pc = "session", !.acceptors = 2, !.profilers = 2]
       ELSE IF outcome = "roofline"
         THEN [Return(2) EXCEPT !.acceptors = 2, !.profilers = 2,
                                !.env_error = "roofline"]
       ELSE [entrypoint EXCEPT !.pc = "thrown"]
  /\ UNCHANGED <<procVars, tstamp_get, xfer, mergeVars, rd, wr, pipe_acceptor, tcp_acceptor,
                 option>>

\* the most pids start_profiling_session records in spawned_children
MaxChildren == 2

\* what a recorded child is when the loop reaches it: running, exited and
\* not yet waited for, or waited for already
ChildStates == {"running", "exited", "reaped"}

\* waitpid(pid, nullptr, WNOHANG): 0 for a child that has not changed
\* state, its pid for one that has exited, -1 when there is no such child
Waitpid(child) ==
  IF child = "running" THEN 0 ELSE IF child = "exited" THEN 1 ELSE -1

\* a test of the status that signals every child
KillsAlways(status) == TRUE

\* if (status == 0) before kill(pid, SIGTERM)
Kills(status) == status = 0

\* the try block: start_profiling_session, which fills spawned_children,
\* fs::remove_all(tmp_dir) when the code is 0, and the two catch clauses
Session(outcome, removed, pids) ==
  /\ entrypoint.pc = "session"
  /\ outcome \in SessionOutcomes
  /\ pids \in Strings(ChildStates, MaxChildren)
  /\ removed => outcome.kind = "code" /\ RemovesTmpDir(outcome.code)
  /\ entrypoint' =
       [entrypoint EXCEPT
          !.pc = "cleanup",
          !.session = outcome,
          !.children = TRUE,
          !.spawned_children = pids,
          !.tmp_dir = IF removed THEN "removed" ELSE @,
          !.to_return = ToReturn(outcome, removed)]
  /\ UNCHANGED <<procVars, tstamp_get, xfer, mergeVars, rd, wr, pipe_acceptor, tcp_acceptor,
                 option>>

\* the loop over spawned_children, with one waitpid for each pid and a
\* SIGTERM for those it reports running, and return to_return
Cleanup ==
  /\ entrypoint.pc = "cleanup"
  /\ LET pids == entrypoint.spawned_children
     IN entrypoint' =
          [Return(entrypoint.to_return) EXCEPT
             !.waited = [i \in DOMAIN pids |-> 1],
             !.signalled = [i \in DOMAIN pids |-> Kills(Waitpid(pids[i]))]]
  /\ UNCHANGED <<procVars, tstamp_get, xfer, mergeVars, rd, wr, pipe_acceptor, tcp_acceptor,
                 option>>

InitEntry ==
  /\ IdleClient
  /\ tstamp_get = NoGets
  /\ xfer = NoTransfer
  /\ rd = NoReader
  /\ wr = NoWriter
  /\ pipe_acceptor = Off
  /\ tcp_acceptor = Off
  /\ option = Off
  /\ \E v \in BOOLEAN, c \in CodesValues, a \in AddressValues, cmd \in BOOLEAN :
       entrypoint = [pc |-> "parse", print_version |-> v, codes_dst |-> c,
                     address |-> a, command |-> cmd, parsed |-> FALSE,
                     config_read |-> FALSE, config |-> EmptyObject,
                     config_error |-> "none",
                     tmp_dir |-> "none",
                     acceptors |-> 0, profilers |-> 0, children |-> FALSE,
                     env_error |-> "none", spawned_children |-> <<>>,
                     waited |-> <<>>, signalled |-> <<>>,
                     session |-> NoSession, to_return |-> 0, ret |-> NoCode]

NextEntry ==
  \/ \E exit \in ParseExits \cup {NoCode} : Parse(exit)
  \/ CheckArgs
  \/ \E system_config_path \in ConfigFiles : ReadSystemConfig(system_config_path)
  \/ \E local_config_path \in ConfigFiles : ReadLocalConfig(local_config_path)
  \/ \E ok \in BOOLEAN : CheckPerf(ok)
  \/ \E ok \in BOOLEAN : ReadFilter(ok)
  \/ \E ok \in BOOLEAN : MakeTmpDir(ok)
  \/ \E valid \in BOOLEAN : CheckCpu(valid)
  \/ \E outcome \in {"ok", "roofline", "throws"} : Build(outcome)
  \/ \E outcome \in SessionOutcomes, removed \in BOOLEAN,
        pids \in Strings(ChildStates, MaxChildren) :
       Session(outcome, removed, pids)
  \/ Cleanup

SpecEntry == InitEntry /\ [][NextEntry]_vars

\* the command line asks for the codes to go to the server and names none
SrvWithoutAddress ==
  /\ entrypoint.pc # "off"
  /\ entrypoint.codes_dst = <<"s", "r", "v">>
  /\ entrypoint.address = <<>>

\* no session state exists
NothingExists ==
  /\ ~entrypoint.config_read
  /\ entrypoint.tmp_dir = "none"
  /\ entrypoint.acceptors = 0
  /\ entrypoint.profilers = 0
  /\ ~entrypoint.children

\* C19 as stated: with --codes srv and no -a, main_entrypoint returns 3 and
\* no session state exists.
C19_SrvWithoutAddressReturns3 ==
  SrvWithoutAddress =>
    /\ NothingExists
    /\ entrypoint.pc = "returned" => entrypoint.ret = 3

\* C19: with --codes srv and no -a, no session state ever exists; once the
\* command line has been parsed main_entrypoint returns 0 when the version
\* was asked for and 3 otherwise, and a command line that does not parse
\* returns what CLI11_PARSE returns.
C19_SrvWithoutAddressStopsEarly ==
  SrvWithoutAddress =>
    /\ NothingExists
    /\ entrypoint.pc \in {"parse", "check", "returned"}
    /\ (entrypoint.pc = "returned" /\ entrypoint.parsed) =>
         entrypoint.ret = IF entrypoint.print_version THEN 0 ELSE 3
    /\ (entrypoint.pc = "returned" /\ ~entrypoint.parsed) =>
         entrypoint.ret \in ParseExits

\* a command line with a command, --codes srv and no -a was refused with 3
C19_Witness ==
  /\ SrvWithoutAddress
  /\ entrypoint.command
  /\ ~entrypoint.print_version
  /\ entrypoint.pc = "returned"
  /\ entrypoint.ret = 3

SessionEnded == entrypoint.pc = "returned" /\ entrypoint.session.kind # "none"

\* C20 as stated: after the session main_entrypoint returns the session's
\* code when the session returned, 2 when it threw, and nothing else.
C20_SessionCodeForwarded ==
  SessionEnded =>
    entrypoint.ret = IF entrypoint.session.kind = "code"
                       THEN entrypoint.session.code ELSE 2

\* C20: after the session main_entrypoint returns 2 when the session threw
\* ConnectionException or another exception, the session's code when the
\* session returned a code other than 0, and for the code 0 either 0, with
\* the temporary directory removed, or 2, when its removal threw.
C20_SessionCodeOrTwo ==
  SessionEnded =>
    IF entrypoint.session.kind # "code" THEN entrypoint.ret = 2
    ELSE IF entrypoint.session.code # 0
      THEN entrypoint.ret = entrypoint.session.code
    ELSE \/ entrypoint.ret = 0 /\ entrypoint.tmp_dir = "removed"
         \/ entrypoint.ret = 2 /\ entrypoint.tmp_dir # "removed"

\* a session that threw ConnectionException ended in the return of 2
C20_Witness ==
  /\ SessionEnded
  /\ entrypoint.session.kind = "ConnectionException"
  /\ entrypoint.ret = 2

\* the stages of main_entrypoint that precede the creation of the directory
BeforeTmpDir ==
  {"parse", "check", "config", "config_local", "perf", "filter", "tmp"}

C22_MalformedConfigReturns3 ==
  (entrypoint.pc = "returned" /\ entrypoint.config_error = "syntax") =>
    /\ entrypoint.ret = 3
    /\ entrypoint.tmp_dir = "none"
    /\ entrypoint.acceptors = 0
    /\ entrypoint.profilers = 0
    /\ ~entrypoint.children

(***************************************************************************)
(* The validators of -e and -p and the use main_entrypoint makes of the    *)
(* values they let through.                                                *)
(***************************************************************************)
COMMA == ","
CARM == <<"C", "A", "R", "M", "_">>

\* the fields a -e value is made of: a name, a number, a reserved title and
\* a title
EventFields == {<<"e">>, <<"1">>, CARM, <<"t">>}

\* the fields joined by commas
RECURSIVE JoinFields(_)
JoinFields(fields) ==
  IF Len(fields) = 1 THEN fields[1]
  ELSE fields[1] \o <<COMMA>> \o JoinFields(Drop(fields, 1))

\* the values of -e
EventArgs ==
  {JoinFields(f) : f \in Strings(EventFields, MaxFields) \ {<<>>}}

\* [0-9\.] of the regular expression
IsPeriodChar(c) == IsDigit(c) \/ c = "."

\* the value up to i is the event, a comma follows, the bytes up to j are
\* digits and dots, a comma follows and at least one byte is left
PeriodEnds(arg, i, j) ==
  /\ 1 <= i /\ i + 1 < j /\ j + 1 < Len(arg)
  /\ \A x \in 1..Len(arg) : IsDot(arg[x])
  /\ arg[i + 1] = COMMA
  /\ \A x \in (i + 2)..j : IsPeriodChar(arg[x])
  /\ arg[j + 1] = COMMA

\* std::regex_match(arg, match, std::regex("^.+,[0-9\\.]+,(.+)$"))
EventMatches(arg) ==
  \E i \in 1..Len(arg), j \in 1..Len(arg) : PeriodEnds(arg, i, j)

\* match[1]: the greedy .+ at the front takes the longest event the rest
\* allows, so the group is what follows the last comma after a number
EventGroup(arg) ==
  LET i == CHOOSE a \in 1..Len(arg) :
             /\ \E j \in 1..Len(arg) : PeriodEnds(arg, a, j)
             /\ \A b \in (a + 1)..Len(arg) :
                  \A j \in 1..Len(arg) : ~PeriodEnds(arg, b, j)
      j == CHOOSE b \in 1..Len(arg) : PeriodEnds(arg, i, b)
  IN Drop(arg, j + 1)

\* std::regex_match(title, std::regex("^CARM_.*$"))
Reserved(title) ==
  StartsWith(title, CARM) /\ \A x \in 1..Len(title) : IsDot(title[x])

\* the lambda given to check of -e: the empty string lets the value through
EventCheck(arg) ==
  IF ~EventMatches(arg) THEN "form"
  ELSE IF Reserved(EventGroup(arg)) THEN "reserved"
  ELSE ""

\* boost::split(parts, event_str, boost::is_any_of(","))
RECURSIVE Split(_)
Split(str) ==
  IF \A x \in 1..Len(str) : str[x] # COMMA THEN <<str>>
  ELSE LET c == CHOOSE x \in 1..Len(str) :
                  str[x] = COMMA /\ \A y \in 1..(x - 1) : str[y] # COMMA
       IN <<SubSeq(str, 1, c - 1)>> \o Split(Drop(str, c))

\* std::stoi: the digits at the front, std::invalid_argument without any
Stoi(str) ==
  IF DigitRun(str) = 0 THEN [thrown |-> TRUE, value |-> 0]
  ELSE [thrown |-> FALSE, value |-> DecVal(SubSeq(str, 1, DigitRun(str)))]

\* CLI11 runs the validator on the value of -e
ValidateEvent ==
  /\ option.pc = "validate"
  /\ option.name = "event"
  /\ option' = [option EXCEPT !.pc = IF EventCheck(option.arg) = ""
                                       THEN "accepted" ELSE "rejected",
                              !.error = EventCheck(option.arg)]
  /\ UNCHANGED <<procVars, tstamp_get, xfer, mergeVars, rd, wr, pipe_acceptor, tcp_acceptor,
                 entrypoint>>

\* the body of the loop over event_strs: the split, std::stoi, which is
\* outside every try block, and event_dict[event_name] = website_title
RegisterEvent ==
  /\ option.pc = "accepted"
  /\ option.name = "event"
  /\ LET parts == Split(option.arg)
         period == Stoi(parts[2])
     IN option' =
          IF period.thrown THEN [option EXCEPT !.pc = "thrown"]
          ELSE [option EXCEPT !.pc = "registered",
                              !.event_name = parts[1],
                              !.period = period.value,
                              !.website_title = parts[3]]
  /\ UNCHANGED <<procVars, tstamp_get, xfer, mergeVars, rd, wr, pipe_acceptor, tcp_acceptor,
                 entrypoint>>

InitEvent ==
  /\ IdleClient
  /\ tstamp_get = NoGets
  /\ xfer = NoTransfer
  /\ rd = NoReader
  /\ wr = NoWriter
  /\ pipe_acceptor = Off
  /\ tcp_acceptor = Off
  /\ entrypoint = Off
  /\ \E arg \in EventArgs :
       option = [pc |-> "validate", name |-> "event", arg |-> arg,
                 error |-> "", event_name |-> <<>>, period |-> 0,
                 website_title |-> <<>>]

NextEvent == ValidateEvent \/ RegisterEvent

SpecEvent == InitEvent /\ [][NextEvent]_vars

\* C23 as stated: the title registered for a -e value that passed the
\* validator never starts with CARM_, whatever the number of commas in the
\* value.
C23_RegisteredTitleNotReserved ==
  (option.pc = "registered" /\ option.name = "event") =>
    ~StartsWith(option.website_title, CARM)

IntModulus == 2 ^ IntBits

\* an unsigned value kept as it is
ToIntUnsigned(u) == u

\* the conversion of an unsigned int to int
ToInt(u) == IF u >= IntModulus \div 2 THEN u - IntModulus ELSE u

\* int max_allowed = std::thread::hardware_concurrency() - 3, the
\* subtraction done on unsigned int, and the test of max_allowed < 1
MaxAllowed(hardware_concurrency) ==
  LET max_allowed == ToInt((hardware_concurrency - 3) % IntModulus)
  IN IF max_allowed < 1 THEN 1 ELSE max_allowed

\* the values of -p: whole numbers, a negative one and a word
PostProcessArgs ==
  {DecString(n) : n \in 0..(MaxHw + 1)} \cup {<<"-", "1">>, <<"x">>}

\* the conversion CLI::Range makes of its input before the comparison
LexicalCast(arg) ==
  IF arg # <<>> /\ AllDigits(arg) THEN [ok |-> TRUE, value |-> DecVal(arg)]
  ELSE IF Len(arg) > 1 /\ arg[1] = "-" /\ AllDigits(Drop(arg, 1))
    THEN [ok |-> TRUE, value |-> 0 - DecVal(Drop(arg, 1))]
  ELSE [ok |-> FALSE, value |-> 0]

\* CLI::Range(min, max): the empty string lets the value through
CliRange(min, max, arg) ==
  LET val == LexicalCast(arg)
  IN IF ~val.ok \/ val.value < min \/ val.value > max THEN "range" ELSE ""

\* check(CLI::Range(0, max_allowed)) on the value of -p
ValidatePostProcess ==
  /\ option.pc = "validate"
  /\ option.name = "post_process"
  /\ LET max_allowed == MaxAllowed(option.hardware_concurrency)
         error == CliRange(0, max_allowed, option.arg)
     IN option' = [option EXCEPT !.pc = IF error = "" THEN "accepted"
                                        ELSE "rejected",
                                 !.error = error,
                                 !.max_allowed = max_allowed]
  /\ UNCHANGED <<procVars, tstamp_get, xfer, mergeVars, rd, wr, pipe_acceptor, tcp_acceptor,
                 entrypoint>>

InitPostProcess ==
  /\ IdleClient
  /\ tstamp_get = NoGets
  /\ xfer = NoTransfer
  /\ rd = NoReader
  /\ wr = NoWriter
  /\ pipe_acceptor = Off
  /\ tcp_acceptor = Off
  /\ entrypoint = Off
  /\ \E hw \in 0..MaxHw, arg \in PostProcessArgs :
       option = [pc |-> "validate", name |-> "post_process", arg |-> arg,
                 hardware_concurrency |-> hw, error |-> "", max_allowed |-> 0]

NextPostProcess == ValidatePostProcess

SpecPostProcess == InitPostProcess /\ [][NextPostProcess]_vars

\* the bound the claim gives for the hardware thread count
ClaimedBound(hw) == IF hw <= 4 THEN 1 ELSE hw - 3

\* C24: the upper bound of --post-process is 1 for a hardware thread count
\* from 0 to 4 and the count minus 3 above that; a value is accepted if it
\* is a whole number from 0 to the bound and rejected otherwise.
C24_PostProcessBound ==
  (option.name = "post_process" /\ option.pc \in {"accepted", "rejected"}) =>
    /\ option.max_allowed = ClaimedBound(option.hardware_concurrency)
    /\ option.pc = "accepted" <=>
         \E n \in 0..ClaimedBound(option.hardware_concurrency) :
           option.arg = DecString(n)

\* with two hardware threads, where the unsigned subtraction wraps, the
\* value 1 was accepted and the value 2 had been refused at the bound 1
C24_Witness ==
  /\ option.name = "post_process"
  /\ option.hardware_concurrency = 2
  /\ option.pc = "accepted"
  /\ option.arg = <<"1">>
  /\ option.max_allowed = 1

(***************************************************************************)
(* The readiness barrier under fair scheduling: the session up to          *)
(* start_profile with connections that stay up and subclients that all     *)
(* accept.  Every step of the control thread and of the subclients is      *)
(* taken if it stays possible; the two acquisitions of accepted_mutex are  *)
(* taken if they are possible again and again, since the mutex is free     *)
(* only between the critical sections of the other threads.  A wait is     *)
(* never required to end without a notification.                           *)
(***************************************************************************)
NextBarrier ==
  \/ \E m \in StartFrames : ReadStart(m)
  \/ \E made \in 0..3 : CreateDirs(made)
  \/ ReadFilename
  \/ Spawn
  \/ SendInstr
  \/ Lock
  \/ Check
  \/ SpuriousWake
  \/ SendStartProfile
  \/ \E i \in Subclients : SubAccept(i)
  \/ \E i \in Subclients : NotifyLock(i)
  \/ \E i \in Subclients : NotifyCount(i)
  \/ \E i \in Subclients : NotifyAll(i)

FairBarrier ==
  /\ SF_vars(Lock)
  /\ WF_vars(Check)
  /\ WF_vars(SendStartProfile)
  /\ \A i \in Subclients :
       /\ WF_vars(SubAccept(i))
       /\ SF_vars(NotifyLock(i))
       /\ WF_vars(NotifyCount(i))
       /\ WF_vars(NotifyAll(i))

SpecBarrier == Init /\ [][NextBarrier]_vars /\ FairBarrier

\* C25: once the control thread has sent the instructions and is about to
\* lock accepted_mutex, whatever the subclients have done of their notify()
\* by then and whatever they do while it locks, tests and waits,
\* start_profile is eventually written.
C25_BarrierLive == (pc = "Lock") ~> Sent("start_profile")

\* the control thread was unblocked from its wait with both subclients
\* through notify()
C25_Witness ==
  /\ pc = "Woken"
  /\ subclient_cnt = 2
  /\ accepted = 2
  /\ \A i \in Subclients : sub[i] = "running"

\* a subclient that has been created and has not returned or thrown
StillRunning(i) ==
  sub[i] \in {"created", "accepted", "locked", "unlocked", "running"}

\* C26 as stated: once the result of a subclient has been merged, no
\* subclient of the session is still running.
C26_MergeAfterAllJoined ==
  (pc = "Join" /\ joined >= 1) =>
    \A i \in 1..subclient_cnt : ~StillRunning(i)

\* the merged structures, as one record
MergeState ==
  [tids |-> tids, thread_tree |-> thread_tree, callchains |-> callchains,
   offcpu_regions |-> offcpu_regions, sampled_times |-> sampled_times,
   final_output |-> final_output]

\* the results i to n merged into m, by rising index
RECURSIVE MergeInOrder(_, _, _)
MergeInOrder(m, i, n) ==
  IF i > n THEN m ELSE MergeInOrder(MergeResult(m, result[i]), i + 1, n)

\* C27: in and right after the loop over the subclients, what has been
\* merged is the merge of the results of the subclients 1 to joined taken
\* by rising index, whatever the order in which the subclients ended.
C27_MergeInCreationOrder ==
  ( /\ pc \in {"Join", "Rebase"}
    /\ \A i \in 1..joined : sub[i] = "done" )
  => MergeState = MergeInOrder(EmptyMerge, 1, joined)

\* two subclients merged, a sample probe first and the thread-tree probe
\* second, which leaves a placeholder before the record of the thread
C27_Witness ==
  /\ pc = "Rebase"
  /\ joined = 2
  /\ result[1].kind = "sample"
  /\ result[2].kind = "tree"
  /\ Len(thread_tree) = 2
  /\ thread_tree[1].parent = Null

\* the index of the last result that holds field f under the pid_tid key k
Holds(i, k, f) ==
  /\ k \in DOMAIN result[i].sample
  /\ f \in DOMAIN result[i].sample[k]

LastHolder(k, f) ==
  CHOOSE i \in 1..subclient_cnt :
    Holds(i, k, f) /\ \A j \in (i + 1)..subclient_cnt : ~Holds(j, k, f)

\* the pid_tid keys under which some result holds a field of the set
KeysWith(fields) ==
  {k \in SampledKeys :
     \E i \in 1..subclient_cnt, f \in fields : Holds(i, k, f)}

\* the fields some result holds under k, the three known ones left out
OtherFields(k) ==
  {f \in UNION {DOMAIN result[i].sample[k] :
                  i \in {j \in 1..subclient_cnt : k \in DOMAIN result[j].sample}} :
     f \notin KnownFields}

AllOtherFields == UNION {OtherFields(k) : k \in SampledKeys}

\* C28: after the loop over the subclients and before the rebase,
\* metadata.sampled_times holds the sampled_time of each pid_tid key and
\* nothing else, metadata.offcpu_regions its offcpu_regions and nothing
\* else, final_output[pid_tid] each other field but first_time with its
\* value and nothing else, and first_time is in none of them.
C28_FieldsRouted ==
  (pc = "Rebase") =>
    /\ DOMAIN sampled_times = KeysWith({"sampled_time"})
    /\ \A k \in DOMAIN sampled_times :
         sampled_times[k] =
           result[LastHolder(k, "sampled_time")].sample[k].sampled_time
    /\ DOMAIN offcpu_regions = KeysWith({"offcpu_regions"})
    /\ \A k \in DOMAIN offcpu_regions :
         offcpu_regions[k] =
           result[LastHolder(k, "offcpu_regions")].sample[k].offcpu_regions
    /\ DOMAIN final_output = KeysWith(AllOtherFields)
    /\ \A k \in DOMAIN final_output :
         /\ DOMAIN final_output[k] = OtherFields(k)
         /\ \A f \in OtherFields(k) :
              final_output[k][f] = result[LastHolder(k, f)].sample[k][f]

\* a pid_tid object with offcpu_regions, first_time and cycles was merged
C28_Witness ==
  /\ pc = "Rebase"
  /\ \E k \in DOMAIN final_output :
       /\ DOMAIN final_output[k] = {"cycles"}
       /\ k \in DOMAIN offcpu_regions
       /\ k \notin DOMAIN sampled_times
       /\ \E i \in 1..subclient_cnt : Holds(i, k, "first_time")

\* the first result that holds the chain c
FirstChainHolder(c) ==
  CHOOSE i \in 1..subclient_cnt :
    /\ c \in DOMAIN result[i].syscall
    /\ \A j \in 1..(i - 1) : c \notin DOMAIN result[j].syscall

\* C29 as stated: a chain id met a second time is an error, so in a merge
\* that went through every chain of metadata.callchains is the one of the
\* first result that holds its id.
C29_ChainNeverReplaced ==
  (pc = "Rebase") =>
    \A c \in DOMAIN callchains :
      callchains[c] = result[FirstChainHolder(c)].syscall[c]

\* the bytes received so far
Consumed == SubSeq(rd.input, 1, Len(rd.input) - Len(rd.stream))

\* the frames of a byte string that are followed by a newline and are not
\* empty, in the order of the string
RECURSIVE FramesOf(_, _)
FramesOf(bytes, cur) ==
  IF bytes = <<>> THEN <<>>
  ELSE IF bytes[1] = NL
    THEN (IF cur = <<>> THEN <<>> ELSE <<cur>>) \o FramesOf(Drop(bytes, 1), <<>>)
  ELSE FramesOf(Drop(bytes, 1), Append(cur, bytes[1]))

\* the frames returned before the end of the stream was met
ReturnedFrames ==
  IF rd.eof THEN SubSeq(rd.returned, 1, Len(rd.returned) - 1) ELSE rd.returned

\* a call of read() made with a message in buffered_msgs
QueuedCall == rd.pc = "idle" /\ rd.buffered_msgs # <<>> /\ rd' # rd

\* C30: the frames returned so far followed by the queued ones are the
\* frames received so far, in the order they were sent; and a call made
\* with a queued frame returns the oldest queued frame without a receive.
C30_FramesInOrder ==
  /\ [](rd.pc # "off" =>
          ReturnedFrames \o rd.buffered_msgs = FramesOf(Consumed, <<>>))
  /\ [][QueuedCall =>
          /\ rd'.returned = Append(rd.returned, Head(rd.buffered_msgs))
          /\ rd'.buffered_msgs = Tail(rd.buffered_msgs)
          /\ rd'.stream = rd.stream
          /\ rd'.pc = "idle"]_vars

\* one receive carried three frames: the first was returned by the call
\* that received, the other two by the next two calls
C30_Witness ==
  /\ rd.pc = "idle"
  /\ rd.input = <<"a", NL, "b", NL, "a", NL>>
  /\ rd.buf_size = 6
  /\ rd.returned = <<<<"a">>, <<"b">>, <<"a">>>>
  /\ rd.buffered_msgs = <<>>
  /\ ~rd.eof

\* the non-empty elements of a sequence of byte strings, in order
NonEmptyOf(frames) == SelectSeq(frames, LAMBDA f : f # <<>>)

\* C31 as stated: once the end of the stream was met, the non-empty results
\* are the non-empty pieces a split of the whole stream at its newlines
\* gives, for every buf_size and every split into receives.
C31_FramesAsReferenceSplit ==
  (rd.pc = "idle" /\ rd.eof) =>
    NonEmptyOf(rd.returned) = NonEmptyOf(Pieces(rd.input, <<>>))

\* the bytes of a stream after its last newline
RECURSIVE Pending(_)
Pending(bytes) ==
  IF bytes = <<>> \/ bytes[Len(bytes)] = NL THEN <<>>
  ELSE Append(Pending(SubSeq(bytes, 1, Len(bytes) - 1)), bytes[Len(bytes)])

\* C32 as stated: the result of the call that meets the end of the stream
\* is the whole of the bytes sent after the last newline, whatever their
\* number.
C32_PendingReturnedAtEof ==
  (rd.pc = "idle" /\ rd.eof) =>
    rd.returned[Len(rd.returned)] = Pending(rd.input)

\* C39: an empty result is the result of the call that met the end of the
\* stream, made with no byte kept in buf; no result before it and no
\* queued message is empty.
C39_EmptyOnlyAtEof ==
  rd.pc # "off" =>
    /\ \A i \in 1..Len(rd.returned) :
         rd.returned[i] = <<>> =>
           rd.eof /\ i = Len(rd.returned) /\ rd.start_pos = 0
    /\ \A i \in 1..Len(rd.buffered_msgs) : rd.buffered_msgs[i] # <<>>

\* a stream that starts with a newline and holds two newlines in a row was
\* read to its last byte with no empty result
C39_Witness ==
  /\ rd.pc = "idle"
  /\ ~rd.eof
  /\ rd.input = <<NL, "a", NL, NL, "b", NL>>
  /\ rd.stream = <<>>
  /\ rd.returned = <<<<"a">>, <<"b">>>>
  /\ rd.buffered_msgs = <<>>

\* C40 as stated: start_pos stays from 0 to buf_size - 1, so that a receive
\* asks for 1 to buf_size - start_pos bytes, and the index taken for the
\* last byte received lies in the buffer, after data, the end of the
\* stream and an error return alike.
C40_IndicesInBuffer ==
  rd.pc # "off" =>
    /\ 0 <= rd.start_pos /\ rd.start_pos < rd.buf_size
    /\ 0 <= rd.last_index /\ rd.last_index < rd.buf_size

\* C37 as stated: a frame of decimal digits sets profile_start_tstamp to
\* its value and leads to tstamp_ack; every other frame is answered with
\* error_tstamp and the return; and once error_tstamp was sent there is no
\* tstamp_ack, no merged result, no output file and no terminal frame.
C37_TstampAnswered ==
  /\ [][\A m \in TstampFrames :
          ReadTstamp(m) =>
            IF TstampMatches(m)
              THEN /\ profile_start'
                   /\ profile_start_tstamp' = DecVal(m)
                   /\ pc' = "TstampAck"
                   /\ sent' = sent
              ELSE /\ sent' = Append(sent, Frame("error_tstamp"))
                   /\ pc' = "Returned"]_vars
  /\ [](Sent("error_tstamp") =>
          /\ ~Sent("tstamp_ack")
          /\ joined = 0
          /\ files = {}
          /\ ~Sent("out_files") /\ ~Sent("profiling_finished")
          /\ ~Sent("finished"))

\* C35: when main_entrypoint returns after start_profiling_session was
\* called, whatever its outcome, every pid of spawned_children was looked
\* at once, and SIGTERM went to the children found running and to no
\* other.
C35_ChildrenChecked ==
  (entrypoint.pc = "returned" /\ entrypoint.session # NoSession) =>
    LET pids == entrypoint.spawned_children
    IN /\ DOMAIN entrypoint.waited = DOMAIN pids
       /\ DOMAIN entrypoint.signalled = DOMAIN pids
       /\ \A i \in DOMAIN pids :
            /\ entrypoint.waited[i] = 1
            /\ entrypoint.signalled[i] <=> pids[i] = "running"

\* the session ended with an exception and left one running and one
\* exited child: the first was signalled, the second was not
C35_Witness ==
  /\ entrypoint.pc = "returned"
  /\ entrypoint.session.kind = "exception"
  /\ entrypoint.spawned_children = <<"running", "exited">>
  /\ entrypoint.signalled = <<TRUE, FALSE>>

\* C36 as stated: a return caused by the perf installation or by the
\* roofline set-up is a return of 2 made with no temporary directory, no
\* acceptor and no profiler in existence.
C36_EnvErrorLeavesNothing ==
  (entrypoint.pc = "returned" /\ entrypoint.env_error # "none") =>
    /\ entrypoint.ret = 2
    /\ entrypoint.tmp_dir = "none"
    /\ entrypoint.acceptors = 0
    /\ entrypoint.profilers = 0

(***************************************************************************)
(* get_profile_start_tstamp against the control thread that stores the     *)
(* timestamp: the session from the frame awaited after start_profile to    *)
(* tstamp_ack, with subclients that ask for the timestamp meanwhile.       *)
(***************************************************************************)
\* StdClient::get_profile_start_tstamp(tstamp), for the values of
\* profile_start and profile_start_tstamp the reads gave; with no
\* destination or with profile_start false nothing is stored
get_profile_start_tstamp(start, value, has_dest) ==
  IF ~start \/ ~has_dest
    THEN [ok |-> FALSE, tstamp |-> 0]
    ELSE [ok |-> TRUE, tstamp |-> value]

\* the thread of subclient i holds accepted_mutex
HoldsMutex(i) == accepted_mutex = "sub" /\ sub[i] = "locked"

\* the thread of a running subclient calls get_profile_start_tstamp.  The
\* two fields are read with no lock taken, while the control thread may be
\* storing them: the read of profile_start may still give false once it
\* was set, and the read of profile_start_tstamp may give any value
SubGetTstamp(i, seen_start, seen_tstamp, has_dest) ==
  /\ sub[i] = "running"
  /\ pc \in {"AwaitTimestamp", "TstampAck", "Join"}
  /\ seen_start \in (IF profile_start THEN BOOLEAN ELSE {FALSE})
  /\ seen_tstamp \in 0..(Modulus - 1)
  /\ HoldsMutex(i) => seen_start = profile_start
  /\ HoldsMutex(i) => seen_tstamp = profile_start_tstamp
  /\ LET got == get_profile_start_tstamp(seen_start, seen_tstamp, has_dest)
     IN tstamp_get' =
          [tstamp_get EXCEPT ![i] = [called |-> TRUE, locked |-> HoldsMutex(i),
                                     ok |-> got.ok, tstamp |-> got.tstamp]]
  /\ UNCHANGED <<procVars, mergeVars, rd, wr, pipe_acceptor, tcp_acceptor,
                 entrypoint, option, xfer>>

InitTstamp ==
  /\ pc = "AwaitTimestamp"
  /\ subclient_cnt \in 1..MaxSubclients
  /\ sent = <<InstrFrame(subclient_cnt), Frame("start_profile")>>
  /\ msg = START \o DecString(subclient_cnt) \o <<SP>> \o SessionDir
  /\ result_dir = SessionDir
  /\ dirs = {ResultPath(SessionDir), ProcessedPath(SessionDir),
             OutPath(SessionDir)}
  /\ spawned = subclient_cnt
  /\ joined = 0
  /\ has_acceptor = FALSE
  /\ lines_read = 0
  /\ upload = NoUpload
  /\ file_conns = 0
  /\ files = {}
  /\ accepted = subclient_cnt
  /\ accepted_mutex = Ctl
  /\ profile_start = FALSE
  /\ profile_start_tstamp = 0
  /\ sub = [i \in Subclients |-> IF i <= subclient_cnt THEN "running" ELSE "none"]
  /\ data_conns = subclient_cnt
  /\ result = [i \in Subclients |-> NoResult]
  /\ tids = EmptyMerge.tids
  /\ thread_tree = EmptyMerge.thread_tree
  /\ callchains = EmptyMerge.callchains
  /\ offcpu_regions = EmptyMerge.offcpu_regions
  /\ sampled_times = EmptyMerge.sampled_times
  /\ final_output = EmptyMerge.final_output
  /\ rd = NoReader
  /\ wr = NoWriter
  /\ SideOff

NextTstamp ==
  \/ \E m \in TstampFrames : ReadTstamp(m)
  \/ SendTstampAck
  \/ \E i \in Subclients, seen_start \in BOOLEAN,
        seen_tstamp \in 0..(Modulus - 1), has_dest \in BOOLEAN :
       SubGetTstamp(i, seen_start, seen_tstamp, has_dest)

SpecTstamp == InitTstamp /\ [][NextTstamp]_vars

\* C33 as stated: every read a subclient thread makes of profile_start and
\* profile_start_tstamp through get_profile_start_tstamp is made by a
\* thread that holds accepted_mutex, so that the value it is given is the
\* one the control thread stored.
C33_ReadsUnderMutex ==
  \A i \in Subclients :
    tstamp_get[i].called =>
      /\ tstamp_get[i].locked
      /\ tstamp_get[i].ok => tstamp_get[i].tstamp = profile_start_tstamp

(***************************************************************************)
(* The body of the try block of the upload loop, step by step: the file    *)
(* connection file_acceptor->accept(1) gave, the loop over the lines of    *)
(* code_paths.lst, and for any other name the std::ofstream and the loop   *)
(* of raw reads.  xfer holds the bytes the peer has still to send over the *)
(* file connection, the bytes received, what std::ofstream holds in its    *)
(* buffer, the bytes in the target file, and the locals stop, error and    *)
(* src_paths.                                                              *)
(***************************************************************************)
\* the most bytes a peer sends over one file connection
MaxFileBytes == 3

\* FILE_BUFFER_SIZE, scaled down
FILE_BUFFER_SIZE == 2

\* the buf_size handed to file_acceptor->accept
FileConnBufSize == 1

\* what a peer may send over a file connection
FileContents == Strings({"a", NL}, MaxFileBytes)

\* the session variables a step of the transfer leaves alone
xferFrame ==
  <<sent, msg, subclient_cnt, result_dir, dirs, spawned, joined, has_acceptor,
    lines_read, file_conns, accepted, profile_start, profile_start_tstamp,
    sub, data_conns, result, mergeVars, wr, pipe_acceptor, tcp_acceptor,
    entrypoint, option, tstamp_get>>

\* a connection after its constructor, with the bytes its peer will send
NewReader(buf_size, bytes) ==
  [pc |-> "idle", buf_size |-> buf_size, buf |-> <<>>, start_pos |-> 0,
   buffered_msgs |-> <<>>, cur_msg |-> <<>>, stream |-> bytes,
   input |-> bytes, returned |-> <<>>, eof |-> FALSE, last_index |-> 0]

NewTransfer(at, bytes) ==
  [pc |-> at, stream |-> bytes, received |-> <<>>, buffered |-> <<>>,
   disk |-> <<>>, error |-> FALSE, eof |-> FALSE, seen |-> 0,
   src_paths |-> {}]

\* the file connection is there and the try block is entered: the loop
\* over the lines for code_paths.lst, the std::ofstream for any other name
BeginTransfer(bytes) ==
  /\ pc = "Upload"
  /\ xfer.pc \in {"none", "done"}
  /\ bytes \in FileContents
  /\ IF upload.name = CODE_PATHS
       THEN /\ xfer' = NewTransfer("list", bytes)
            /\ rd' = NewReader(FileConnBufSize, bytes)
       ELSE /\ xfer' = NewTransfer("open", bytes)
            /\ rd' = rd
  /\ UNCHANGED <<pc, upload, files, accepted_mutex, xferFrame>>

\* line = file_connection->read() of the loop over the list
ListRead ==
  /\ pc = "Upload"
  /\ xfer.pc = "list"
  /\ xfer.seen = Len(rd.returned)
  /\ ReadCall

\* a test of the line that never ends the loop
StopsNever(line) == FALSE

\* if (line.empty()) stop = true
Stops(line) == line = <<>>

\* the rest of one turn of the loop over the list: the test of the line
\* and, for a path that exists, src_paths.insert
ListTurn(exists) ==
  /\ pc = "Upload"
  /\ xfer.pc = "list"
  /\ rd.pc = "idle"
  /\ xfer.seen < Len(rd.returned)
  /\ LET line == rd.returned[xfer.seen + 1]
     IN xfer' =
          IF Stops(line)
            THEN [xfer EXCEPT !.pc = "archive", !.seen = @ + 1, !.eof = TRUE]
            ELSE [xfer EXCEPT !.seen = @ + 1,
                              !.src_paths = IF exists THEN @ \cup {line} ELSE @]
  /\ UNCHANGED <<pc, upload, files, accepted_mutex, rd, xferFrame>>

\* Archive archive(processed_path / "src.zip"), create_src_archive and the
\* choice of the reply, error being false on this path
BuildArchive ==
  /\ pc = "Upload"
  /\ xfer.pc = "archive"
  /\ files' = files \cup {Append(ProcessedPath(result_dir), SRC_ZIP)}
  /\ upload' = [upload EXCEPT !.reply = "out_file_ok"]
  /\ pc' = "Reply"
  /\ xfer' = [xfer EXCEPT !.pc = "done"]
  /\ UNCHANGED <<accepted_mutex, rd, xferFrame>>

\* std::ofstream f(path, out | binary) and the test of f; a stream that
\* does not open is answered with error_out_file
OpenFile(ok) ==
  /\ pc = "Upload"
  /\ xfer.pc = "open"
  /\ LET path == UploadPath(result_dir, upload.processed, upload.name)
     IN /\ ok => (path \notin dirs /\ Len(path) > 1)
        /\ files' = IF ok THEN files \cup {path} ELSE files
  /\ IF ok
       THEN /\ xfer' = [xfer EXCEPT !.pc = "copy"]
            /\ UNCHANGED <<pc, upload>>
       ELSE /\ xfer' = [xfer EXCEPT !.pc = "done"]
            /\ upload' = [upload EXCEPT !.reply = "error_out_file"]
            /\ pc' = "Reply"
  /\ UNCHANGED <<accepted_mutex, rd, xferFrame>>

\* one turn of while (!stop && !error): a read of at most FILE_BUFFER_SIZE
\* bytes, 0 once the peer has closed, and f.write with the test of f.
\* The bytes go to the buffer of the stream; the stream decides whether it
\* hands its buffer to the file now, and only then can the write fail.
CopyChunk(n, flushed, write_ok) ==
  /\ pc = "Upload"
  /\ xfer.pc = "copy"
  /\ IF xfer.stream = <<>>
       THEN /\ n = 0 /\ ~flushed /\ write_ok
            /\ xfer' = [xfer EXCEPT !.pc = "close", !.eof = TRUE]
       ELSE /\ n \in 1..FILE_BUFFER_SIZE
            /\ n <= Len(xfer.stream)
            /\ flushed \/ write_ok
            /\ LET chunk == SubSeq(xfer.stream, 1, n)
                   held == xfer.buffered \o chunk
               IN xfer' =
                    [xfer EXCEPT
                       !.stream = Drop(@, n),
                       !.received = @ \o chunk,
                       !.buffered = IF flushed /\ write_ok THEN <<>> ELSE held,
                       !.disk = IF flushed /\ write_ok THEN @ \o held ELSE @,
                       !.error = flushed /\ ~write_ok,
                       !.pc = IF flushed /\ ~write_ok THEN "close" ELSE "copy"]
  /\ UNCHANGED <<pc, upload, files, accepted_mutex, rd, xferFrame>>

\* a flush that drops what it was given
FlushNever(held, flush_ok) == <<>>

\* what the destructor of std::ofstream adds to the file: the bytes held
\* in the buffer, or nothing when the write fails, which no one is told
Flush(held, flush_ok) == IF flush_ok THEN held ELSE <<>>

\* the end of the block of f, where the stream is closed, and the choice
\* between error_out_file and out_file_ok
CloseFile(flush_ok) ==
  /\ pc = "Upload"
  /\ xfer.pc = "close"
  /\ xfer' = [xfer EXCEPT !.pc = "done", !.buffered = <<>>,
                          !.disk = @ \o Flush(xfer.buffered, flush_ok)]
  /\ upload' = [upload EXCEPT
                  !.reply = IF xfer.error THEN "error_out_file" ELSE "out_file_ok"]
  /\ pc' = "Reply"
  /\ UNCHANGED <<files, accepted_mutex, rd, xferFrame>>

\* TimeoutException from the raw read: the stream is closed on the way to
\* the catch clause, which answers error_out_file_timeout
CopyTimeout(flush_ok) ==
  /\ pc = "Upload"
  /\ xfer.pc = "copy"
  /\ xfer' = [xfer EXCEPT !.pc = "done", !.buffered = <<>>,
                          !.disk = @ \o Flush(xfer.buffered, flush_ok)]
  /\ upload' = [upload EXCEPT !.reply = "error_out_file_timeout"]
  /\ pc' = "Reply"
  /\ UNCHANGED <<files, accepted_mutex, rd, xferFrame>>

\* ConnectionException from a read of the file connection: no catch clause
\* of the loop takes it and process() is left
TransferFails ==
  /\ pc = "Upload"
  /\ xfer.pc \in {"list", "copy"}
  /\ xfer.pc = "list" => rd.pc = "receive"
  /\ xfer' = [xfer EXCEPT !.pc = "done"]
  /\ Leave("Thrown")
  /\ UNCHANGED <<upload, files, rd, xferFrame>>

\* the session in the upload phase, but for the position in the loop
UploadPhase ==
  /\ subclient_cnt = 1
  /\ sent = <<InstrFrame(1), Frame("start_profile"), Frame("tstamp_ack"),
              Frame("out_files"), Frame("file_instr")>>
  /\ msg = START \o DecString(1) \o <<SP>> \o SessionDir
  /\ result_dir = SessionDir
  /\ dirs = {ResultPath(SessionDir), ProcessedPath(SessionDir),
             OutPath(SessionDir)}
  /\ spawned = 1
  /\ joined = 1
  /\ has_acceptor = TRUE
  /\ files = {Append(ProcessedPath(SessionDir), METADATA_JSON)}
  /\ accepted = 1
  /\ accepted_mutex = Ctl
  /\ profile_start = TRUE
  /\ profile_start_tstamp = 0
  /\ sub = [i \in Subclients |-> IF i <= 1 THEN "done" ELSE "none"]
  /\ data_conns = 1
  /\ result = [i \in Subclients |-> NoResult]
  /\ tids = EmptyMerge.tids
  /\ thread_tree = EmptyMerge.thread_tree
  /\ callchains = EmptyMerge.callchains
  /\ offcpu_regions = EmptyMerge.offcpu_regions
  /\ sampled_times = EmptyMerge.sampled_times
  /\ final_output = EmptyMerge.final_output
  /\ rd = NoReader
  /\ wr = NoWriter
  /\ SideOff

\* the session when out_files and the instructions of the file acceptor
\* have been sent
InitTransfer ==
  /\ pc = "AwaitFiles"
  /\ lines_read = 0
  /\ upload = NoUpload
  /\ file_conns = 0
  /\ UploadPhase

\* the upload phase with no exception from the connections
NextUpload ==
  \/ \E x \in UploadLines : ReadUploadLine(x)
  \/ \E bytes \in FileContents : BeginTransfer(bytes)
  \/ ListRead
  \/ (pc = "Upload" /\ xfer.pc = "list" /\ \E n \in 0..FileConnBufSize : Receive(n))
  \/ \E exists \in BOOLEAN : ListTurn(exists)
  \/ BuildArchive
  \/ \E ok \in BOOLEAN : OpenFile(ok)
  \/ \E n \in 0..FILE_BUFFER_SIZE, flushed \in BOOLEAN, write_ok \in BOOLEAN :
       CopyChunk(n, flushed, write_ok)
  \/ \E flush_ok \in BOOLEAN : CloseFile(flush_ok)
  \/ SendReply
  \/ SendFinished

NextTransfer ==
  \/ NextUpload
  \/ \E flush_ok \in BOOLEAN : CopyTimeout(flush_ok)
  \/ TransferFails
  \/ ConnFails

SpecTransfer == InitTransfer /\ [][NextTransfer]_vars

\* the frames that answer a line of the upload phase
AnswerTypes ==
  {"out_file_ok", "error_out_file", "error_out_file_timeout",
   "error_wrong_file_format"}

\* the number of answers written so far
Answers == Cardinality({i \in 1..Len(sent) : sent[i].t \in AnswerTypes})

\* every line read so far has its one answer when the next line is awaited,
\* and the line being served has none yet
OneAnswerPerLine ==
  /\ pc = "AwaitFiles" => Answers = lines_read
  /\ pc \in {"Upload", "Reply"} => Answers = lines_read - 1

\* a file connection is accepted when a well-formed line is read, one for
\* each, and at no other step
OneConnectionPerLine ==
  /\ \A x \in UploadLines :
       ReadUploadLine(x) =>
         file_conns' = file_conns + (IF x # STOP /\ WellFormedLine(x) THEN 1 ELSE 0)
  /\ file_conns' # file_conns => \E x \in UploadLines : ReadUploadLine(x)

\* out_file_ok is chosen with the file connection read to its end and, for
\* an upload that goes to a file, with the bytes received in that file
OkAfterEofAndWrite ==
  (pc = "Reply" /\ upload.reply = "out_file_ok") =>
    /\ xfer.eof
    /\ IF upload.name = CODE_PATHS
         THEN rd.eof /\ rd.stream = <<>>
         ELSE xfer.stream = <<>> /\ xfer.disk = xfer.received

\* C34 as stated: one answer for each line other than <STOP>, written
\* before the next line is read; one file connection for each well-formed
\* line; out_file_ok only after the connection was read to its end and
\* every byte received was written to the target file.
C34_UploadAnswered ==
  /\ []OneAnswerPerLine
  /\ [][OneConnectionPerLine]_vars
  /\ []OkAfterEofAndWrite

\* The control thread goes on while it can, a blocking receive returns
\* once the peer has sent bytes or closed, and the peer that was accepted
\* sends what it has to send.
FairUpload ==
  /\ WF_vars(\E bytes \in FileContents : BeginTransfer(bytes))
  /\ WF_vars(ListRead)
  /\ WF_vars(pc = "Upload" /\ xfer.pc = "list"
               /\ \E n \in 0..FileConnBufSize : Receive(n))
  /\ WF_vars(\E exists \in BOOLEAN : ListTurn(exists))
  /\ WF_vars(BuildArchive)
  /\ WF_vars(SendReply)

\* the session when a line that names code_paths.lst has been read and the
\* file connection accepted
InitCodePaths ==
  /\ pc = "Upload"
  /\ lines_read = 1
  /\ \E processed \in BOOLEAN :
       upload = [name |-> CODE_PATHS, processed |-> processed, reply |-> "none"]
  /\ file_conns = 1
  /\ UploadPhase

\* the handling of the list up to its answer, with a file connection that
\* does not fail
NextCodePaths ==
  \/ \E bytes \in FileContents : BeginTransfer(bytes)
  \/ ListRead
  \/ (pc = "Upload" /\ xfer.pc = "list" /\ \E n \in 0..FileConnBufSize : Receive(n))
  \/ \E exists \in BOOLEAN : ListTurn(exists)
  \/ BuildArchive
  \/ SendReply

SpecCodePaths == InitCodePaths /\ [][NextCodePaths]_vars /\ FairUpload

\* the list has been handled: the loop has met the end of the stream, the
\* archive is there and out_file_ok is the reply to write
ListHandled ==
  /\ pc = "Reply"
  /\ upload.name = CODE_PATHS
  /\ upload.reply = "out_file_ok"
  /\ Append(ProcessedPath(result_dir), SRC_ZIP) \in files
  /\ rd.eof

\* out_file_ok is written and the next line is awaited
OkWritten == pc = "AwaitFiles" /\ sent[Len(sent)].t = "out_file_ok"

\* C38: the handling of an upload named code_paths.lst comes to its end for
\* every content of the list: the loop has then met the end of the stream,
\* src.zip is built and out_file_ok is written; and the loop was given each
\* line of the list once, followed by the one empty result that ends it.
C38_ListTerminates ==
  /\ (pc = "Upload" /\ upload.name = CODE_PATHS) ~> ListHandled
  /\ ListHandled ~> OkWritten
  /\ []((pc = "Upload" /\ xfer.pc = "archive") \/ ListHandled =>
          /\ rd.eof
          /\ xfer.seen = Len(rd.returned)
          /\ rd.returned = Append(FramesOf(rd.input, <<>>), <<>>))

\* a list whose last path has no newline after it was read to the end of
\* the stream and answered
C38_Witness ==
  /\ ListHandled
  /\ rd.input = <<"a", NL, "a">>
  /\ xfer.seen = 2

====
